---- MODULE Spec2Model ----
(***************************************************************************)
(* State-mapping / conversion engine of olmo_core.nn.conversion            *)
(* (state_mapping.py): StateMappingTemplate, StateMapping, StateConverter. *)
(*                                                                         *)
(* Strings are sequences of one-character strings, so that `in`,           *)
(* str.replace, str() and sorted() are modelled by what they do.           *)
(* Optional values (Python None) are encoded as <<>> (absent) or <<x>>     *)
(* (present); an optional placeholder is the empty string when absent,     *)
(* which is also how Python's truthiness test on it behaves.               *)
(***************************************************************************)
EXTENDS Integers, Sequences, FiniteSets, TLC

(***************************************************************************)
(* Bounds of the model.                                                    *)
(***************************************************************************)
\* longest template list handed to StateConverter
MaxTemplates == 2
\* largest placeholder bound (number of layers / experts) in a call
MaxBound == 2

(***************************************************************************)
(* Strings.                                                                *)
(***************************************************************************)
\* TemplatePlaceholder.LAYER = "[layer]"
LAYER == <<"[", "l", "a", "y", "e", "r", "]">>
\* TemplatePlaceholder.EXPERT = "[expert]"
EXPERT == <<"[", "e", "x", "p", "e", "r", "t", "]">>

\* the value None of a placeholder assignment (int | None)
None == -1

\* s[i..] starts with sub
StartsWithAt(s, sub, i) ==
    /\ i + Len(sub) - 1 <= Len(s)
    /\ SubSeq(s, i, i + Len(sub) - 1) = sub

\* Python: sub in s   (sub non-empty)
Contains(s, sub) == \E i \in 1..Len(s) : StartsWithAt(s, sub, i)

RECURSIVE ReplaceFrom(_, _, _, _)
ReplaceFrom(s, sub, rep, i) ==
    IF i > Len(s) THEN <<>>
    ELSE IF StartsWithAt(s, sub, i)
         THEN rep \o ReplaceFrom(s, sub, rep, i + Len(sub))
         ELSE <<s[i]>> \o ReplaceFrom(s, sub, rep, i + 1)

\* Python: s.replace(sub, rep)   (left to right, non-overlapping)
Replace(s, sub, rep) == ReplaceFrom(s, sub, rep, 1)

DigitChar(d) == <<"0", "1", "2", "3", "4", "5", "6", "7", "8", "9">>[d + 1]

RECURSIVE Str(_)
\* Python: str(n) for n >= 0
Str(n) == IF n < 10 THEN <<DigitChar(n)>>
          ELSE Str(n \div 10) \o <<DigitChar(n % 10)>>

\* Python: ord(c), for the characters that occur in keys
Ord(c) ==
    CASE c = "." -> 46
      [] c = "0" -> 48 [] c = "1" -> 49 [] c = "2" -> 50 [] c = "3" -> 51
      [] c = "4" -> 52 [] c = "5" -> 53 [] c = "6" -> 54 [] c = "7" -> 55
      [] c = "8" -> 56 [] c = "9" -> 57
      [] c = "E" -> 69 [] c = "P" -> 80 [] c = "Q" -> 81 [] c = "W" -> 87
      [] c = "[" -> 91 [] c = "]" -> 93
      [] c = "a" -> 97 [] c = "b" -> 98 [] c = "c" -> 99 [] c = "e" -> 101
      [] c = "l" -> 108 [] c = "p" -> 112 [] c = "q" -> 113 [] c = "r" -> 114
      [] c = "t" -> 116 [] c = "u" -> 117 [] c = "w" -> 119 [] c = "x" -> 120
      [] c = "y" -> 121 [] c = "z" -> 122

RECURSIVE StrLess(_, _)
\* Python: s < t on strings (lexicographic by code point)
StrLess(s, t) ==
    IF t = <<>> THEN FALSE
    ELSE IF s = <<>> THEN TRUE
    ELSE IF Ord(Head(s)) # Ord(Head(t)) THEN Ord(Head(s)) < Ord(Head(t))
    ELSE StrLess(Tail(s), Tail(t))

RECURSIVE Sorted(_)
\* Python: sorted(set_of_strings)
Sorted(S) ==
    IF S = {} THEN <<>>
    ELSE LET least == CHOOSE x \in S : \A y \in S \ {x} : StrLess(x, y)
         IN  <<least>> \o Sorted(S \ {least})

(***************************************************************************)
(* Ordered dictionaries with few keys (placeholder_bounds,                 *)
(* placeholder_values): sequences of <<key, value>> pairs in insertion     *)
(* order.                                                                  *)
(***************************************************************************)
\* Python: d.keys()
PairKeys(d) == {d[j][1] : j \in DOMAIN d}

\* Python: d[k]
PairGet(d, k) == d[CHOOSE j \in DOMAIN d : d[j][1] = k][2]

\* Python: range(n) as a list
RangeMutant(n) == [j \in 1..n |-> n - j]

Range(n) == [j \in 1..n |-> j - 1]

RECURSIVE Flatten(_)
\* concatenation of a sequence of sequences
Flatten(ss) == IF ss = <<>> THEN <<>> ELSE Head(ss) \o Flatten(Tail(ss))

\* the elements of a sequence
Elems(s) == {s[j] : j \in DOMAIN s}

(***************************************************************************)
(* StateMappingTemplate.                                                   *)
(***************************************************************************)
\* a `str | Tuple[str, ...]` field holding one string
OneKey(s) == [is_tuple |-> FALSE, strs |-> <<s>>]
\* a `str | Tuple[str, ...]` field holding a tuple of strings
KeyTuple(ss) == [is_tuple |-> TRUE, strs |-> ss]

\* an entry of unflatten_dim[1]: a literal integer
DimInt(n) == [is_placeholder |-> FALSE, placeholder |-> <<>>, dim |-> n]
\* an entry of unflatten_dim[1]: a placeholder standing for its bound
DimPlaceholder(p) == [is_placeholder |-> TRUE, placeholder |-> p, dim |-> 0]

\* the dataclass constructor, fields in declaration order
StateMappingTemplate(src, dst, skp, dkp, cat, unfl, perm, flat, chunk) ==
    [source_template_keys |-> src,
     dest_template_keys |-> dst,
     source_key_per_placeholder |-> skp,
     dest_key_per_placeholder |-> dkp,
     source_concat_dim |-> cat,
     unflatten_dim |-> unfl,
     dims_permutation |-> perm,
     flatten_dims |-> flat,
     dest_chunk_dim |-> chunk]

\* the source-side test of __post_init__: raises ValueError when TRUE
PostInitSourceRaisesMutant(self) ==
    self.source_key_per_placeholder # <<>> /\ ~self.source_template_keys.is_tuple

PostInitSourceRaises(self) ==
    self.source_key_per_placeholder # <<>> /\ self.source_template_keys.is_tuple

\* the dest-side test of __post_init__: raises ValueError when TRUE
PostInitDestRaises(self) ==
    self.dest_key_per_placeholder # <<>> /\ self.dest_template_keys.is_tuple

\* __post_init__ raises ValueError
PostInitRaises(self) == PostInitSourceRaises(self) \/ PostInitDestRaises(self)

RECURSIVE FillKey(_, _, _, _)
\* the inner loop of _templates_to_keys over placeholder_values.items():
\* <<>> for `return None`, <<key>> otherwise
FillKey(template, key, placeholder_values, j) ==
    IF j > Len(placeholder_values) THEN <<key>>
    ELSE LET placeholder == placeholder_values[j][1]
             value == placeholder_values[j][2]
         IN  IF Contains(template, placeholder) /\ value # None
             THEN FillKey(template, Replace(key, placeholder, Str(value)),
                          placeholder_values, j + 1)
             ELSE IF ~Contains(template, placeholder) /\ value = None
             THEN FillKey(template, key, placeholder_values, j + 1)
             ELSE <<>>

\* _templates_to_keys: tag "keys" (a tuple of keys), "None" or
\* "AssertionError"; kpp_values (key_per_placeholder_values) is <<>> (None)
\* or <<list>>
TemplatesToKeys(templates, placeholder_values, key_per_placeholder, kpp_values) ==
    IF key_per_placeholder # <<>> /\ kpp_values = <<>>
    THEN [tag |-> "None", keys |-> <<>>]
    ELSE IF key_per_placeholder # <<>>
            /\ (templates.is_tuple
                \/ ~Contains(templates.strs[1], key_per_placeholder))
    THEN [tag |-> "AssertionError", keys |-> <<>>]
    ELSE
      LET expanded ==
              IF key_per_placeholder # <<>>
              THEN [j \in DOMAIN kpp_values[1] |->
                       Replace(templates.strs[1], key_per_placeholder,
                               Str(kpp_values[1][j]))]
              ELSE templates.strs
          filled == [j \in DOMAIN expanded |->
                       FillKey(expanded[j], expanded[j], placeholder_values, 1)]
      IN  IF \E j \in DOMAIN filled : filled[j] = <<>>
          THEN [tag |-> "None", keys |-> <<>>]
          ELSE [tag |-> "keys", keys |-> [j \in DOMAIN filled |-> filled[j][1]]]

\* required_placeholders of to_mapping
RequiredPlaceholders(self) ==
    (IF self.source_key_per_placeholder # <<>>
     THEN {self.source_key_per_placeholder} ELSE {})
    \cup (IF self.dest_key_per_placeholder # <<>>
          THEN {self.dest_key_per_placeholder} ELSE {})
    \cup (IF self.unflatten_dim # <<>>
          THEN {d.placeholder : d \in {e \in Elems(self.unflatten_dim[1].shape) :
                                          e.is_placeholder}}
          ELSE {})

\* the key_per_placeholder_values argument to_mapping passes for one side
KeyPerPlaceholderValues(kpp, placeholder_values, placeholder_bounds) ==
    IF kpp # <<>> /\ PairGet(placeholder_values, kpp) = None
    THEN <<Range(PairGet(placeholder_bounds, kpp))>>
    ELSE <<>>

\* the StateMapping to_mapping builds from resolved keys
ConcreteMappingMutant(self, source_keys, dest_keys, placeholder_bounds) ==
    [source_keys |-> source_keys,
     dest_keys |-> dest_keys,
     source_concat_dim |-> self.source_concat_dim,
     unflatten_dim |->
        IF self.unflatten_dim = <<>> THEN <<>>
        ELSE <<[dim |-> self.unflatten_dim[1].dim,
                shape |-> [j \in DOMAIN self.unflatten_dim[1].shape |->
                             LET d == self.unflatten_dim[1].shape[j]
                             IN  IF d.is_placeholder
                                 THEN PairGet(placeholder_bounds, d.placeholder) - 1
                                 ELSE d.dim]]>>,
     dims_permutation |-> self.dims_permutation,
     flatten_dims |-> self.flatten_dims,
     dest_chunk_dim |-> self.dest_chunk_dim]

ConcreteMapping(self, source_keys, dest_keys, placeholder_bounds) ==
    [source_keys |-> source_keys,
     dest_keys |-> dest_keys,
     source_concat_dim |-> self.source_concat_dim,
     unflatten_dim |->
        IF self.unflatten_dim = <<>> THEN <<>>
        ELSE <<[dim |-> self.unflatten_dim[1].dim,
                shape |-> [j \in DOMAIN self.unflatten_dim[1].shape |->
                             LET d == self.unflatten_dim[1].shape[j]
                             IN  IF d.is_placeholder
                                 THEN PairGet(placeholder_bounds, d.placeholder)
                                 ELSE d.dim]]>>,
     dims_permutation |-> self.dims_permutation,
     flatten_dims |-> self.flatten_dims,
     dest_chunk_dim |-> self.dest_chunk_dim]

\* the missing-required-placeholders test of to_mapping
MissingRequired(self, placeholder_bounds) ==
    RequiredPlaceholders(self) \ PairKeys(placeholder_bounds) # {}

\* StateMappingTemplate.to_mapping: tag "mapping", "None" or "AssertionError"
ToMappingMutant(self, placeholder_values, placeholder_bounds) ==
    IF MissingRequired(self, placeholder_bounds) /\ self.unflatten_dim # <<>>
    THEN [tag |-> "None", mapping |-> <<>>]
    ELSE [tag |-> "mapping",
          mapping |-> <<ConcreteMapping(self, self.source_template_keys.strs,
                                        self.dest_template_keys.strs,
                                        placeholder_bounds)>>]

ToMapping(self, placeholder_values, placeholder_bounds) ==
    IF MissingRequired(self, placeholder_bounds)
    THEN [tag |-> "None", mapping |-> <<>>]
    ELSE
      LET source_keys ==
              TemplatesToKeys(self.source_template_keys, placeholder_values,
                  self.source_key_per_placeholder,
                  KeyPerPlaceholderValues(self.source_key_per_placeholder,
                      placeholder_values, placeholder_bounds))
          dest_keys ==
              TemplatesToKeys(self.dest_template_keys, placeholder_values,
                  self.dest_key_per_placeholder,
                  KeyPerPlaceholderValues(self.dest_key_per_placeholder,
                      placeholder_values, placeholder_bounds))
      IN  IF source_keys.tag = "AssertionError" \/ dest_keys.tag = "AssertionError"
          THEN [tag |-> "AssertionError", mapping |-> <<>>]
          ELSE IF source_keys.tag = "None" \/ dest_keys.tag = "None"
          THEN [tag |-> "None", mapping |-> <<>>]
          ELSE [tag |-> "mapping",
                mapping |-> <<ConcreteMapping(self, source_keys.keys,
                                              dest_keys.keys, placeholder_bounds)>>]

(***************************************************************************)
(* StateConverter._get_mappings.                                           *)
(***************************************************************************)
\* the choices of one placeholder: 0 .. bound-1, then None
PlaceholderChoicesMutant(placeholder, bound) ==
    [j \in 1..(bound + 1) |-> <<placeholder, IF j <= bound THEN 0 ELSE None>>]

PlaceholderChoices(placeholder, bound) ==
    [j \in 1..(bound + 1) |-> <<placeholder, IF j <= bound THEN j - 1 ELSE None>>]

RECURSIVE ProductMutant(_)
ProductMutant(placeholder_bounds) ==
    IF placeholder_bounds = <<>> THEN << <<>> >>
    ELSE LET first == PlaceholderChoices(placeholder_bounds[1][1],
                                         placeholder_bounds[1][2])
             rest == ProductMutant(Tail(placeholder_bounds))
         IN  Flatten([b \in DOMAIN rest |->
                        [a \in DOMAIN first |-> <<first[a]>> \o rest[b]]])

RECURSIVE Product(_)
\* itertools.product over the per-placeholder choice lists, as dicts:
\* the last placeholder varies fastest
Product(placeholder_bounds) ==
    IF placeholder_bounds = <<>> THEN << <<>> >>
    ELSE LET first == PlaceholderChoices(placeholder_bounds[1][1],
                                         placeholder_bounds[1][2])
             rest == Product(Tail(placeholder_bounds))
         IN  Flatten([a \in DOMAIN first |->
                        [b \in DOMAIN rest |-> <<first[a]>> \o rest[b]]])

\* placeholder_value_combinations
PlaceholderValueCombinations(placeholder_bounds) == Product(placeholder_bounds)

\* the to_mapping results of one template over all combinations, in order
FilledByTemplate(mapping_template, placeholder_bounds) ==
    LET combos == PlaceholderValueCombinations(placeholder_bounds)
    IN  [c \in DOMAIN combos |->
           ToMapping(mapping_template, combos[c], placeholder_bounds)]

\* the relevance filter of _get_mappings for one mapping
RelevantMutant(mapping, state_keys) ==
    \E j \in DOMAIN mapping.source_keys : mapping.source_keys[j] \in state_keys

Relevant(mapping, state_keys) ==
    \A j \in DOMAIN mapping.source_keys : mapping.source_keys[j] \in state_keys

(***************************************************************************)
(* Tensors (torch.Tensor) and the tensor operations convert calls.         *)
(* A tensor is its shape and its elements in row-major order; a state      *)
(* value that is no tensor has is_tensor = FALSE.  Every operation         *)
(* yields [err, t]: err = "" and the result, or the error it raises.       *)
(***************************************************************************)
Tensor(shape, data) == [is_tensor |-> TRUE, shape |-> shape, data |-> data]
NonTensor(v) == [is_tensor |-> FALSE, shape |-> <<>>, data |-> <<v>>]

Ok(t) == [err |-> "", t |-> t]
Err(e) == [err |-> e, t |-> NonTensor(0)]

RECURSIVE Prod(_)
\* the number of elements of a shape
Prod(shape) == IF shape = <<>> THEN 1 ELSE Head(shape) * Prod(Tail(shape))

RECURSIVE Sum(_)
Sum(ns) == IF ns = <<>> THEN 0 ELSE Head(ns) + Sum(Tail(ns))

\* the row-major stride of axis d (1-based) of a shape
Stride(shape, d) == Prod(SubSeq(shape, d + 1, Len(shape)))

\* the multi-index (0-based entries) of the k-th element (0-based)
Unravel(k, shape) == [d \in DOMAIN shape |-> (k \div Stride(shape, d)) % shape[d]]

\* the position (0-based) of a multi-index
Ravel(idx, shape) == Sum([d \in DOMAIN shape |-> idx[d] * Stride(shape, d)])

\* t[idx]
At(t, idx) == t.data[Ravel(idx, t.shape) + 1]

\* the source tensor and offset holding position p (0-based) of the
\* concatenated axis
RECURSIVE CatLocate(_, _, _, _)
CatLocate(ts, axis, p, j) ==
    IF p < ts[j].shape[axis] THEN <<j, p>>
    ELSE CatLocate(ts, axis, p - ts[j].shape[axis], j + 1)

\* torch.cat(ts, dim)
TorchCat(ts, dim) ==
    IF \E j \in DOMAIN ts : ~ts[j].is_tensor THEN Err("TypeError")
    ELSE IF \E j \in DOMAIN ts : ts[j].shape = <<>> THEN Err("ShapeError")
    ELSE IF dim >= Len(ts[1].shape) THEN Err("ShapeError")
    ELSE IF \E j \in DOMAIN ts :
               \/ Len(ts[j].shape) # Len(ts[1].shape)
               \/ \E d \in DOMAIN ts[1].shape :
                      d # dim + 1 /\ ts[j].shape[d] # ts[1].shape[d]
    THEN Err("ShapeError")
    ELSE LET axis == dim + 1
             shape == [ts[1].shape EXCEPT
                          ![axis] = Sum([j \in DOMAIN ts |-> ts[j].shape[axis]])]
             Elem(idx) == LET at == CatLocate(ts, axis, idx[axis], 1)
                          IN  At(ts[at[1]], [idx EXCEPT ![axis] = at[2]])
         IN  Ok(Tensor(shape, [k \in 1..Prod(shape) |-> Elem(Unravel(k - 1, shape))]))

\* Tensor.unflatten(dim, sizes)
TorchUnflatten(t, dim, sizes) ==
    IF dim >= Len(t.shape) \/ sizes = <<>> THEN Err("ShapeError")
    ELSE IF \E j \in DOMAIN sizes : sizes[j] <= 0 THEN Err("ShapeError")
    ELSE IF Prod(sizes) # t.shape[dim + 1] THEN Err("ShapeError")
    ELSE Ok(Tensor(SubSeq(t.shape, 1, dim) \o sizes
                     \o SubSeq(t.shape, dim + 2, Len(t.shape)),
                   t.data))

\* Tensor.permute(*dims)
TorchPermute(t, dims) ==
    IF Len(dims) # Len(t.shape) THEN Err("ShapeError")
    ELSE IF Elems(dims) # {d - 1 : d \in DOMAIN t.shape} THEN Err("ShapeError")
    ELSE LET shape == [j \in DOMAIN dims |-> t.shape[dims[j] + 1]]
             Elem(idx) ==
                 At(t, [d \in DOMAIN t.shape |->
                          idx[CHOOSE j \in DOMAIN dims : dims[j] = d - 1]])
         IN  Ok(Tensor(shape, [k \in 1..Prod(shape) |-> Elem(Unravel(k - 1, shape))]))

\* Tensor.flatten(start_dim, end_dim)
TorchFlatten(t, start_dim, end_dim) ==
    IF t.shape = <<>> THEN Err("ShapeError")
    ELSE IF start_dim >= Len(t.shape) \/ end_dim >= Len(t.shape)
    THEN Err("ShapeError")
    ELSE IF start_dim > end_dim THEN Err("ShapeError")
    ELSE Ok(Tensor(SubSeq(t.shape, 1, start_dim)
                     \o <<Prod(SubSeq(t.shape, start_dim + 1, end_dim + 1))>>
                     \o SubSeq(t.shape, end_dim + 2, Len(t.shape)),
                   t.data))

\* the size of every chunk but the last: ceil(size / chunks)
SplitSize(size, chunks) == (size + chunks - 1) \div chunks

\* the number of chunks torch.chunk returns for an axis of this size
NumChunks(size, chunks) ==
    LET split_size == SplitSize(size, chunks)
    IN  IF split_size = 0 THEN chunks
        ELSE IF (size + split_size - 1) \div split_size > 1
             THEN (size + split_size - 1) \div split_size ELSE 1

\* torch.chunk(t, chunks, dim): err, or the tuple of chunks; an axis that
\* is not divisible by chunks gives a smaller last chunk and possibly
\* fewer chunks, never an error
TorchChunk(t, chunks, dim) ==
    IF chunks <= 0 THEN [err |-> "ShapeError", chunks |-> <<>>]
    ELSE IF dim >= Len(t.shape) THEN [err |-> "ShapeError", chunks |-> <<>>]
    ELSE LET axis == dim + 1
             size == t.shape[axis]
             split_size == SplitSize(size, chunks)
             n == NumChunks(size, chunks)
             Piece(j) ==
                 LET start == (j - 1) * split_size
                     len == IF start + split_size <= size
                            THEN split_size ELSE size - start
                     Elem(idx) == At(t, [idx EXCEPT ![axis] = idx[axis] + start])
                 IN  LET shape == [t.shape EXCEPT ![axis] = len]
                     IN  Tensor(shape, [k \in 1..Prod(shape) |-> Elem(Unravel(k - 1, shape))])
         IN  [err |-> "", chunks |-> [j \in 1..n |-> Piece(j)]]

\* Tensor.contiguous(): the same values
Contiguous(t) == t

(***************************************************************************)
(* State dictionaries (Dict[str, Any]): functions from keys to values.     *)
(***************************************************************************)
EmptyDict == <<>>

\* Python: d[k] = v
DictSetMutant(d, k, v) == [x \in DOMAIN d \cup {k} |-> IF x \in DOMAIN d THEN d[x] ELSE v]

DictSet(d, k, v) == [x \in DOMAIN d \cup {k} |-> IF x = k THEN v ELSE d[x]]

(***************************************************************************)
(* StateConverter.convert: one iteration of the loop over state_mappings.  *)
(***************************************************************************)
\* original_state after cat / unflatten / permute / flatten
TransformStateMutant(state_dict, mapping) ==
    LET cat == TorchCat([j \in DOMAIN mapping.source_keys |->
                            state_dict[mapping.source_keys[j]]],
                        mapping.source_concat_dim)
        perm == IF cat.err # "" \/ mapping.dims_permutation = <<>> THEN cat
                ELSE TorchPermute(cat.t, mapping.dims_permutation[1])
        unfl == IF perm.err # "" \/ mapping.unflatten_dim = <<>> THEN perm
                ELSE TorchUnflatten(perm.t, mapping.unflatten_dim[1].dim,
                                    mapping.unflatten_dim[1].shape)
        flat == IF unfl.err # "" \/ mapping.flatten_dims = <<>> THEN unfl
                ELSE TorchFlatten(unfl.t, mapping.flatten_dims[1][1],
                                  mapping.flatten_dims[1][2])
    IN  flat

TransformState(state_dict, mapping) ==
    LET cat == TorchCat([j \in DOMAIN mapping.source_keys |->
                            state_dict[mapping.source_keys[j]]],
                        mapping.source_concat_dim)
        unfl == IF cat.err # "" \/ mapping.unflatten_dim = <<>> THEN cat
                ELSE TorchUnflatten(cat.t, mapping.unflatten_dim[1].dim,
                                    mapping.unflatten_dim[1].shape)
        perm == IF unfl.err # "" \/ mapping.dims_permutation = <<>> THEN unfl
                ELSE TorchPermute(unfl.t, mapping.dims_permutation[1])
        flat == IF perm.err # "" \/ mapping.flatten_dims = <<>> THEN perm
                ELSE TorchFlatten(perm.t, mapping.flatten_dims[1][1],
                                  mapping.flatten_dims[1][2])
    IN  flat

\* the isinstance test that guards the tensor branch
IsTensorState(state_dict, original_keys) == state_dict[original_keys[1]].is_tensor

\* state_chunks of one mapping: err, or the chunks
StateChunksMutant(state_dict, mapping) ==
    IF ~IsTensorState(state_dict, mapping.source_keys)
    THEN [err |-> "NonTensorError", chunks |-> <<>>]
    ELSE LET original_state == TransformState(state_dict, mapping)
         IN  IF original_state.err # ""
             THEN [err |-> original_state.err, chunks |-> <<>>]
             ELSE LET got == TorchChunk(original_state.t, Len(mapping.dest_keys),
                                        mapping.dest_chunk_dim)
                  IN  [got EXCEPT !.chunks = [j \in DOMAIN got.chunks |->
                                                 got.chunks[Len(got.chunks) + 1 - j]]]

StateChunks(state_dict, mapping) ==
    IF ~IsTensorState(state_dict, mapping.source_keys)
    THEN [err |-> "NonTensorError", chunks |-> <<>>]
    ELSE LET original_state == TransformState(state_dict, mapping)
         IN  IF original_state.err # ""
             THEN [err |-> original_state.err, chunks |-> <<>>]
             ELSE TorchChunk(original_state.t, Len(mapping.dest_keys),
                             mapping.dest_chunk_dim)

\* Python: zip(a, b) stops at the shorter one
ZipLen(a, b) == IF Len(a) <= Len(b) THEN Len(a) ELSE Len(b)

RECURSIVE WriteChunks(_, _, _, _)
\* for hf_key, state_chunk in zip(converted_keys, state_chunks), from pair j
WriteChunks(converted, converted_keys, state_chunks, j) ==
    IF j > ZipLen(converted_keys, state_chunks) THEN converted
    ELSE WriteChunks(DictSet(converted, converted_keys[j],
                             Contiguous(state_chunks[j])),
                     converted_keys, state_chunks, j + 1)

\* unused_original_keys after one mapping
RemoveUsedMutant(unused_original_keys, original_keys) ==
    unused_original_keys \ {original_keys[1]}

RemoveUsed(unused_original_keys, original_keys) ==
    unused_original_keys \ Elems(original_keys)

\* the object the name converted_state_dict is bound to: a new dict
NewDictMutant(source_ref) == source_ref

NewDict(source_ref) == "converted"

(***************************************************************************)
(* Inputs.                                                                 *)
(***************************************************************************)
Key1(a) == <<a>>
KeyIdx(a, n) == <<a, ".">> \o Str(n)

\* "w" -> ("x", "y", "z")
Split3 ==
    StateMappingTemplate(OneKey(Key1("w")),
                         KeyTuple(<<Key1("x"), Key1("y"), Key1("z")>>),
                         <<>>, <<>>, 0, <<>>, <<>>, <<>>, 0)
\* "e.[expert]" -> "E.[expert]"
PerExpert ==
    StateMappingTemplate(OneKey(<<"e", ".">> \o EXPERT), OneKey(<<"E", ".">> \o EXPERT),
                         <<>>, <<>>, 0, <<>>, <<>>, <<>>, 0)
\* all "e.[expert]" -> "E", unflattened to (EXPERT, 2), transposed, flattened
AllExperts ==
    StateMappingTemplate(OneKey(<<"e", ".">> \o EXPERT), OneKey(Key1("E")),
                         EXPERT, <<>>, 0,
                         <<[dim |-> 0, shape |-> <<DimPlaceholder(EXPERT), DimInt(2)>>]>>,
                         << <<1, 0>> >>, << <<0, 1>> >>, 0)
\* a per-placeholder expansion on a multi-key source side
BadSource ==
    StateMappingTemplate(KeyTuple(<<Key1("a"), Key1("b")>>), OneKey(Key1("c")),
                         LAYER, <<>>, 0, <<>>, <<>>, <<>>, 0)
\* a per-placeholder expansion on a multi-key dest side
BadDest ==
    StateMappingTemplate(OneKey(Key1("w")), KeyTuple(<<Key1("x"), Key1("y")>>),
                         <<>>, EXPERT, 0, <<>>, <<>>, <<>>, 0)

\* "l.[layer]" -> "L.[layer]", one key per layer on both sides
PerLayer ==
    StateMappingTemplate(OneKey(<<"l", ".">> \o LAYER), OneKey(<<"L", ".">> \o LAYER),
                         LAYER, LAYER, 0, <<>>, <<>>, <<>>, 0)
\* "p.[layer].[expert]" -> "P.[layer].[expert]"
PerLayerExpert ==
    StateMappingTemplate(OneKey(<<"p", ".">> \o LAYER \o <<".">> \o EXPERT),
                         OneKey(<<"P", ".">> \o LAYER \o <<".">> \o EXPERT),
                         <<>>, <<>>, 0, <<>>, <<>>, <<>>, 0)

\* ("x", "y", "z") -> "w": the declared inverse of Split3
Join3 ==
    StateMappingTemplate(KeyTuple(<<Key1("x"), Key1("y"), Key1("z")>>),
                         OneKey(Key1("w")),
                         <<>>, <<>>, 0, <<>>, <<>>, <<>>, 0)
\* "L.[layer]" -> "l.[layer]": the declared inverse of PerLayer
PerLayerBack ==
    StateMappingTemplate(OneKey(<<"L", ".">> \o LAYER), OneKey(<<"l", ".">> \o LAYER),
                         LAYER, LAYER, 0, <<>>, <<>>, <<>>, 0)
\* "E" -> all "e.[expert]": the declared inverse of AllExperts, which undoes
\* its flatten by an unflatten to (2, EXPERT), its transposition by a
\* transposition and its unflatten by a flatten
ExpertsApart ==
    StateMappingTemplate(OneKey(Key1("E")), OneKey(<<"e", ".">> \o EXPERT),
                         <<>>, EXPERT, 0,
                         <<[dim |-> 0, shape |-> <<DimInt(2), DimPlaceholder(EXPERT)>>]>>,
                         << <<1, 0>> >>, << <<0, 1>> >>, 0)

\* "u" -> "E": a second template that writes the dest key of AllExperts
Alias ==
    StateMappingTemplate(OneKey(Key1("u")), OneKey(Key1("E")),
                         <<>>, <<>>, 0, <<>>, <<>>, <<>>, 0)

\* the constructor calls the model makes, by name; a template object is
\* referred to by the name of the call that made it
TemplateNames == {"Split3", "PerExpert", "AllExperts", "BadSource", "BadDest"}

\* the templates of all converters of the model, by name
CatalogueNames ==
    TemplateNames \cup {"PerLayer", "PerLayerExpert", "Join3", "PerLayerBack", "ExpertsApart",
                      "Alias"}

\* the arguments of a constructor call, which are the fields of its object
Template(name) ==
    CASE name = "Split3" -> Split3
      [] name = "PerExpert" -> PerExpert
      [] name = "AllExperts" -> AllExperts
      [] name = "BadSource" -> BadSource
      [] name = "BadDest" -> BadDest
      [] name = "PerLayer" -> PerLayer
      [] name = "PerLayerExpert" -> PerLayerExpert
      [] name = "Join3" -> Join3
      [] name = "PerLayerBack" -> PerLayerBack
      [] name = "ExpertsApart" -> ExpertsApart
      [] name = "Alias" -> Alias

T2a == Tensor(<<2>>, <<1, 2>>)
T2b == Tensor(<<2>>, <<3, 4>>)
T3 == Tensor(<<3>>, <<1, 2, 3>>)
T10 == Tensor(<<10>>, <<0, 1, 2, 3, 4, 5, 6, 7, 8, 9>>)
T22 == Tensor(<<2, 2>>, <<5, 6, 7, 8>>)
Scalar == NonTensor(7)
\* a zero-dimensional tensor
T0 == Tensor(<<>>, <<9>>)
T1 == Tensor(<<1>>, <<5>>)

\* a dict from a sequence of <<key, value>> pairs
DictOf(pairs) == [k \in PairKeys(pairs) |-> PairGet(pairs, k)]

\* the union of two dicts with disjoint keys
DictUnion(d, e) == [k \in DOMAIN d \cup DOMAIN e |-> IF k \in DOMAIN d THEN d[k] ELSE e[k]]

SplitParts == {DictOf(<<<<Key1("w"), v>>>>) : v \in {T2a, T3, T10}}
ExpertParts ==
    {DictOf([j \in 1..n |-> <<KeyIdx("e", j - 1), IF j = 1 THEN T2a ELSE T2b>>]) :
        n \in 1..MaxBound}
    \cup {DictOf(<<<<KeyIdx("e", 0), T2a>>, <<KeyIdx("e", 1), v>>>>) : v \in {Scalar, T22}}
    \cup {DictOf(<<<<<<"e", ".">> \o EXPERT, T2a>>>>)}
    \cup {DictOf(<<<<KeyIdx("e", 0), Scalar>>, <<KeyIdx("e", 1), T2a>>>>)}
OtherParts == {DictOf(<<<<Key1("u"), T2a>>>>)}
LayerParts ==
    {DictOf([j \in 1..n |-> <<KeyIdx("l", j - 1), IF j = 1 THEN T2a ELSE T2b>>]) :
        n \in 1..MaxBound}
    \cup {DictOf(<<<<KeyIdx("l", 0), T0>>>>)}
PairParts ==
    {DictOf(<<<<KeyIdx("p", 0) \o <<".", "1">>, T2a>>,
             <<KeyIdx("p", 1) \o <<".", "0">>, T2b>>>>)}

TripleParts ==
    {DictOf(<<<<Key1("x"), a>>, <<Key1("y"), b>>, <<Key1("z"), c>>>>) :
        <<a, b, c>> \in {T1, T2a, T3, T22} \X {T1, T2a, T3, T22} \X {T1, T2a, T3, T22}}

\* the source state dicts of the model: at most one part of each kind
StateDicts ==
    {DictUnion(DictUnion(DictUnion(w, e), u), DictUnion(l, p)) :
        w \in SplitParts \cup {EmptyDict},
        e \in ExpertParts \cup {EmptyDict},
        u \in OtherParts \cup {EmptyDict},
        l \in LayerParts \cup {EmptyDict},
        p \in PairParts \cup {EmptyDict}}

\* the kinds of keys (their first character) the templates of a converter read
ReadKinds(templates) ==
    UNION {{Template(templates[t]).source_template_keys.strs[j][1] :
               j \in DOMAIN Template(templates[t]).source_template_keys.strs} :
           t \in DOMAIN templates}

\* the state dicts a converter is called with: keys of the kinds its
\* templates read, and possibly the key "u", which most converters do not read
StateDictsFor(templates) ==
    {sd \in StateDicts : \A k \in DOMAIN sd : k[1] \in ReadKinds(templates) \cup {"u"}}

\* the placeholder bounds of the model: LAYER before EXPERT, and the other
\* insertion order where both bounds are equal
BoundsChoices ==
    {<<>>}
    \cup {<<<<p, n>>>> : p \in {LAYER, EXPERT}, n \in 1..MaxBound}
    \cup {<<<<LAYER, n>>, <<EXPERT, m>>>> : <<n, m>> \in (1..MaxBound) \X (1..MaxBound)}
    \cup {<<<<EXPERT, n>>, <<LAYER, n>>>> : n \in 1..MaxBound}

(***************************************************************************)
(* StateConverter._get_mappings, continued.  The results of to_mapping     *)
(* depend on the template and the bounds only, so they are tabulated once  *)
(* for the templates and bounds of the model.                              *)
(***************************************************************************)
FilledTable ==
    [tb \in CatalogueNames \X BoundsChoices |-> FilledByTemplate(Template(tb[1]), tb[2])]

\* the unfiltered list: one to_mapping result per (template, combination),
\* templates outermost
FilledMappings(mapping_templates, placeholder_bounds) ==
    Flatten([t \in DOMAIN mapping_templates |->
               FilledTable[<<mapping_templates[t], placeholder_bounds>>]])

\* StateConverter._get_mappings: raised (an AssertionError of to_mapping
\* propagates) or the list of relevant mappings
GetMappings(mapping_templates, state_keys, placeholder_bounds) ==
    LET filled == FilledMappings(mapping_templates, placeholder_bounds)
        NotNone(r) == r.tag = "mapping"
        IsRelevant(r) == Relevant(r.mapping[1], state_keys)
    IN  IF \E j \in DOMAIN filled : filled[j].tag = "AssertionError"
        THEN [raised |-> TRUE, mappings |-> <<>>]
        ELSE LET sel == SelectSeq(SelectSeq(filled, NotNone), IsRelevant)
             IN  [raised |-> FALSE,
                  mappings |-> [j \in DOMAIN sel |-> sel[j].mapping[1]]]

RECURSIVE ConvertLoop(_, _, _, _, _)
\* the loop of convert from mapping j on, then the coverage check and the
\* return: kind "dict" with the returned dict, or the error raised
ConvertLoop(state_dict, mappings, j, converted, unused) ==
    IF j > Len(mappings)
    THEN IF Cardinality(unused) > 0
         THEN [kind |-> "CoverageError", dict |-> EmptyDict, keys |-> Sorted(unused)]
         ELSE [kind |-> "dict", dict |-> converted, keys |-> <<>>]
    ELSE LET state_chunks == StateChunks(state_dict, mappings[j])
         IN  IF state_chunks.err # ""
             THEN [kind |-> state_chunks.err, dict |-> EmptyDict, keys |-> <<>>]
             ELSE ConvertLoop(state_dict, mappings, j + 1,
                              WriteChunks(converted, mappings[j].dest_keys,
                                          state_chunks.chunks, 1),
                              RemoveUsed(unused, mappings[j].source_keys))

\* StateConverter.convert as a function of the converter's templates and the
\* arguments
Convert(mapping_templates, state_dict, placeholder_bounds) ==
    LET got == GetMappings(mapping_templates, DOMAIN state_dict, placeholder_bounds)
    IN  IF got.raised
        THEN [kind |-> "AssertionError", dict |-> EmptyDict, keys |-> <<>>]
        ELSE ConvertLoop(state_dict, got.mappings, 1, EmptyDict, DOMAIN state_dict)

(***************************************************************************)
(* The state machine.                                                      *)
(***************************************************************************)
VARIABLES
    mapping_templates,      \* StateConverter.mapping_templates (template objects)
    last_new,               \* the latest StateMappingTemplate(...) call
    pc,                     \* "setup", "idle", "loop", "returned", "raised"
    op,                     \* the running call: "", "get_mappings", "convert"
    heap,                   \* the dict objects: the caller's and convert's own
    placeholder_bounds,     \* the caller's placeholder_bounds object
    arg_state_dict,         \* the state dict as it was when the call began
    arg_bounds,             \* the bounds as they were when the call began
    state_mappings,         \* convert's local state_mappings
    i,                      \* the position of convert's loop in state_mappings
    unused_original_keys,   \* convert's local unused_original_keys
    converted_ref,          \* the object convert's converted_state_dict names
    outcome,                \* what the call returned or raised
    tm,                     \* a direct call template.to_mapping(values, bounds)
    history,                \* what is remembered of the converter's past calls
    rt,                     \* a conversion by one converter and back by another
    ld                      \* a call load_hf_model(dir, model_state_dict, n_layers)

vars == <<mapping_templates, last_new, pc, op, heap, placeholder_bounds,
          arg_state_dict, arg_bounds, state_mappings, i, unused_original_keys,
          converted_ref, outcome, tm, history, rt, ld>>

\* a call's outcome: kind "" (none yet), "dict" (convert returned the object
\* ref), "mappings" (get_mappings returned the list), or the error raised;
\* keys are the keys a coverage error lists
NoOutcome == [kind |-> "", ref |-> "", keys |-> <<>>, mappings |-> <<>>]

\* raise: the caller gets the error and no object
RaisedMutant(kind) == [NoOutcome EXCEPT !.kind = kind, !.ref = "converted"]

Raised(kind) == [NoOutcome EXCEPT !.kind = kind]

NoCall ==
    /\ op = ""
    /\ heap = [o \in {"state_dict", "converted"} |-> EmptyDict]
    /\ placeholder_bounds = <<>>
    /\ arg_state_dict = EmptyDict
    /\ arg_bounds = <<>>
    /\ state_mappings = <<>>
    /\ i = 0
    /\ unused_original_keys = {}
    /\ converted_ref = ""
    /\ outcome = NoOutcome

\* no direct to_mapping call has been made
NoToMapping ==
    [called |-> FALSE, template |-> Split3, placeholder_values |-> <<>>,
     placeholder_bounds |-> <<>>, result |-> [tag |-> "", mapping |-> <<>>]]

\* nothing is remembered: the list the converter was built from, whether a
\* call was made on it and whether one of its calls raised
NoHistory == [templates |-> <<>>, called |-> FALSE, failed |-> FALSE]

\* the result of a whole convert call: none yet
NoResult == [kind |-> "", dict |-> EmptyDict, keys |-> <<>>]

\* no conversion there and back has been started
NoRoundTrip ==
    [stage |-> "none", F |-> <<>>, G |-> <<>>, S |-> EmptyDict, bounds |-> <<>>,
     mid |-> NoResult, back |-> NoResult]

\* no call of load_hf_model is running
NoLoad ==
    [pc |-> "none", n_layers |-> 0, hf_layers |-> 0, hf_state_dict |-> <<>>,
     key_mapping |-> <<>>, model_state_dict |-> EmptyDict,
     arg_model_state_dict |-> EmptyDict, unupdated_keys |-> {}, j |-> 0,
     error |-> [kind |-> "", line |-> 0]]

\* the variables of the direct calls and of the record of past calls, which
\* the converter's calls leave alone
directVars == <<tm, history, rt, ld>>

Init ==
    /\ mapping_templates = <<>>
    /\ last_new = [made |-> FALSE, raised |-> FALSE, name |-> ""]
    /\ pc = "setup"
    /\ NoCall
    /\ tm = NoToMapping
    /\ history = NoHistory
    /\ rt = NoRoundTrip
    /\ ld = NoLoad

callVars == <<op, heap, placeholder_bounds, arg_state_dict, arg_bounds,
              state_mappings, i, unused_original_keys, converted_ref, outcome>>

\* StateMappingTemplate(...): __post_init__ raises, or the template joins the
\* list the converter is built from
NewTemplate ==
    /\ pc = "setup"
    /\ Len(mapping_templates) < MaxTemplates
    /\ \E name \in TemplateNames :
          /\ last_new' = [made |-> TRUE, raised |-> PostInitRaises(Template(name)),
                          name |-> name]
          /\ mapping_templates' =
                IF PostInitRaises(Template(name)) THEN mapping_templates
                ELSE Append(mapping_templates, name)
    /\ UNCHANGED <<pc, callVars, directVars>>

\* StateConverter(mapping_templates)
NewConverter ==
    /\ pc = "setup"
    /\ pc' = "idle"
    /\ UNCHANGED <<mapping_templates, last_new, callVars, directVars>>

\* converter.get_mappings(state_dict, placeholder_bounds)
CallGetMappings ==
    /\ pc = "idle"
    /\ \E sd \in StateDictsFor(mapping_templates), bounds \in BoundsChoices :
          LET got == GetMappings(mapping_templates, DOMAIN sd, bounds)
          IN  /\ op' = "get_mappings"
              /\ heap' = [heap EXCEPT !["state_dict"] = sd]
              /\ placeholder_bounds' = bounds
              /\ arg_state_dict' = sd
              /\ arg_bounds' = bounds
              /\ pc' = IF got.raised THEN "raised" ELSE "returned"
              /\ outcome' = IF got.raised THEN Raised("AssertionError")
                            ELSE [NoOutcome EXCEPT !.kind = "mappings",
                                                   !.mappings = got.mappings]
    /\ UNCHANGED <<mapping_templates, last_new, state_mappings, i,
                   unused_original_keys, converted_ref, directVars>>

\* converter.convert(state_dict, placeholder_bounds), up to the loop
CallConvert ==
    /\ pc = "idle"
    /\ \E sd \in StateDictsFor(mapping_templates), bounds \in BoundsChoices :
          LET got == GetMappings(mapping_templates, DOMAIN sd, bounds)
          IN  /\ op' = "convert"
              /\ heap' = [heap EXCEPT !["state_dict"] = sd,
                                      !["converted"] = EmptyDict]
              /\ placeholder_bounds' = bounds
              /\ arg_state_dict' = sd
              /\ arg_bounds' = bounds
              /\ IF got.raised
                 THEN /\ pc' = "raised"
                      /\ outcome' = Raised("AssertionError")
                      /\ UNCHANGED <<state_mappings, i, unused_original_keys,
                                     converted_ref>>
                 ELSE /\ pc' = "loop"
                      /\ state_mappings' = got.mappings
                      /\ i' = 1
                      /\ unused_original_keys' = DOMAIN sd
                      /\ converted_ref' = NewDict("state_dict")
                      /\ UNCHANGED outcome
    /\ UNCHANGED <<mapping_templates, last_new, directVars>>

\* one iteration of `for mapping in state_mappings`
ConvertStep ==
    /\ pc = "loop"
    /\ i <= Len(state_mappings)
    /\ LET mapping == state_mappings[i]
           state_chunks == StateChunks(heap["state_dict"], mapping)
       IN  IF state_chunks.err # ""
           THEN /\ pc' = "raised"
                /\ outcome' = Raised(state_chunks.err)
                /\ UNCHANGED <<heap, i, unused_original_keys>>
           ELSE /\ heap' = [heap EXCEPT ![converted_ref] =
                               WriteChunks(heap[converted_ref], mapping.dest_keys,
                                           state_chunks.chunks, 1)]
                /\ unused_original_keys' =
                      RemoveUsed(unused_original_keys, mapping.source_keys)
                /\ i' = i + 1
                /\ UNCHANGED <<pc, outcome>>
    /\ UNCHANGED <<mapping_templates, last_new, op, placeholder_bounds,
                   arg_state_dict, arg_bounds, state_mappings, converted_ref,
                   directVars>>

\* after the loop: the coverage check and the return
ConvertFinishMutant ==
    /\ pc = "loop"
    /\ i > Len(state_mappings)
    /\ IF Cardinality(unused_original_keys) > 0 /\ ~history.called
       THEN /\ pc' = "raised"
            /\ outcome' = [Raised("CoverageError") EXCEPT
                              !.keys = Sorted(unused_original_keys)]
       ELSE /\ pc' = "returned"
            /\ outcome' = [NoOutcome EXCEPT !.kind = "dict", !.ref = converted_ref]
    /\ UNCHANGED <<mapping_templates, last_new, op, heap, placeholder_bounds,
                   arg_state_dict, arg_bounds, state_mappings, i,
                   unused_original_keys, converted_ref, directVars>>

\* the coverage check passes over a single unused key
ConvertFinishLenientMutant ==
    /\ pc = "loop"
    /\ i > Len(state_mappings)
    /\ IF Cardinality(unused_original_keys) > 1
       THEN /\ pc' = "raised"
            /\ outcome' = [Raised("CoverageError") EXCEPT
                              !.keys = Sorted(unused_original_keys)]
       ELSE /\ pc' = "returned"
            /\ outcome' = [NoOutcome EXCEPT !.kind = "dict", !.ref = converted_ref]
    /\ UNCHANGED <<mapping_templates, last_new, op, heap, placeholder_bounds,
                   arg_state_dict, arg_bounds, state_mappings, i,
                   unused_original_keys, converted_ref, directVars>>

ConvertFinish ==
    /\ pc = "loop"
    /\ i > Len(state_mappings)
    /\ IF Cardinality(unused_original_keys) > 0
       THEN /\ pc' = "raised"
            /\ outcome' = [Raised("CoverageError") EXCEPT
                              !.keys = Sorted(unused_original_keys)]
       ELSE /\ pc' = "returned"
            /\ outcome' = [NoOutcome EXCEPT !.kind = "dict", !.ref = converted_ref]
    /\ UNCHANGED <<mapping_templates, last_new, op, heap, placeholder_bounds,
                   arg_state_dict, arg_bounds, state_mappings, i,
                   unused_original_keys, converted_ref, directVars>>

\* the caller drops the call's objects; the converter is ready for the next
Forget ==
    /\ pc \in {"returned", "raised"}
    /\ pc' = "idle"
    /\ op' = ""
    /\ heap' = [o \in {"state_dict", "converted"} |-> EmptyDict]
    /\ placeholder_bounds' = <<>>
    /\ arg_state_dict' = EmptyDict
    /\ arg_bounds' = <<>>
    /\ state_mappings' = <<>>
    /\ i' = 0
    /\ unused_original_keys' = {}
    /\ converted_ref' = ""
    /\ outcome' = NoOutcome
    /\ UNCHANGED <<mapping_templates, last_new>>

\* the end of a call of which nothing is remembered
Release ==
    /\ Forget
    /\ UNCHANGED directVars

Next ==
    \/ NewTemplate
    \/ NewConverter
    \/ CallGetMappings
    \/ CallConvert
    \/ ConvertStep
    \/ ConvertFinish
    \/ Release

Spec == Init /\ [][Next]_vars

(***************************************************************************)
(* Sequences of calls on one converter, from the state after its           *)
(* construction, remembering whether calls were made before and whether    *)
(* one of them raised.                                                     *)
(***************************************************************************)
\* the template lists of the converters called
ConverterLists ==
    {<<"PerLayer">>,
     <<"Split3", "AllExperts">>,
     <<"AllExperts", "PerExpert">>,
     <<"PerLayerExpert", "PerLayer">>}

\* after StateConverter(mapping_templates)
CallsInit ==
    /\ mapping_templates \in ConverterLists
    /\ last_new = [made |-> FALSE, raised |-> FALSE, name |-> ""]
    /\ pc = "idle"
    /\ NoCall
    /\ tm = NoToMapping
    /\ history = [templates |-> mapping_templates, called |-> FALSE, failed |-> FALSE]
    /\ rt = NoRoundTrip
    /\ ld = NoLoad

\* the end of a call, remembered
ReleaseRecorded ==
    /\ Forget
    /\ history' = [history EXCEPT !.called = TRUE, !.failed = @ \/ pc = "raised"]
    /\ UNCHANGED <<tm, rt, ld>>

CallsNext ==
    \/ CallGetMappings
    \/ CallConvert
    \/ ConvertStep
    \/ ConvertFinish
    \/ ReleaseRecorded

CallsSpec == CallsInit /\ [][CallsNext]_vars

(***************************************************************************)
(* Direct calls of StateMappingTemplate.to_mapping, on templates whose      *)
(* construction succeeded, with every assignment over the placeholders of  *)
(* the bounds.                                                             *)
(***************************************************************************)
\* source_template_keys of the templates called directly
SourceChoices ==
    {OneKey(Key1("w")),
     OneKey(<<"a", ".">> \o LAYER),
     OneKey(<<"a", ".">> \o EXPERT),
     OneKey(<<"a", ".">> \o LAYER \o <<".">> \o EXPERT),
     KeyTuple(<< <<"a", ".">> \o LAYER, Key1("b") >>),
     KeyTuple(<< <<"a", ".">> \o LAYER, <<"b", ".">> \o LAYER >>),
     KeyTuple(<<>>)}

\* dest_template_keys of the templates called directly
DestChoices ==
    {OneKey(Key1("x")),
     OneKey(<<"A", ".">> \o LAYER),
     OneKey(<<"A", ".">> \o EXPERT),
     KeyTuple(<<Key1("x"), Key1("y")>>)}

\* source_key_per_placeholder / dest_key_per_placeholder: None or a placeholder
PerPlaceholderChoices == {<<>>, LAYER, EXPERT}

\* unflatten_dim: None, or (axis, shape) with a placeholder in the shape
UnflattenChoices ==
    {<<>>,
     <<[dim |-> 0, shape |-> <<DimPlaceholder(EXPERT), DimInt(2)>>]>>,
     <<[dim |-> 1, shape |-> <<DimInt(3), DimPlaceholder(LAYER)>>]>>}

\* <<source_concat_dim, dims_permutation, flatten_dims, dest_chunk_dim>>
TransformChoices ==
    {<<0, <<>>, <<>>, 0>>,
     <<1, << <<1, 0>> >>, << <<0, 1>> >>, 2>>}

\* the templates whose constructor returns
DirectTemplates ==
    {t \in {StateMappingTemplate(src, dst, skp, dkp, tr[1], unfl, tr[2], tr[3], tr[4]) :
               src \in SourceChoices, dst \in DestChoices,
               skp \in PerPlaceholderChoices, dkp \in PerPlaceholderChoices,
               unfl \in UnflattenChoices, tr \in TransformChoices} :
        ~PostInitRaises(t)}

\* template.to_mapping(placeholder_values, placeholder_bounds)
CallToMapping ==
    /\ ~tm.called
    /\ \E t \in DirectTemplates, bounds \in BoundsChoices :
          \E c \in DOMAIN PlaceholderValueCombinations(bounds) :
             LET values == PlaceholderValueCombinations(bounds)[c]
             IN  tm' = [called |-> TRUE, template |-> t,
                        placeholder_values |-> values,
                        placeholder_bounds |-> bounds,
                        result |-> ToMapping(t, values, bounds)]
    /\ UNCHANGED <<mapping_templates, last_new, pc, callVars, history, rt, ld>>

\* the caller drops the result
DropToMapping ==
    /\ tm.called
    /\ tm' = NoToMapping
    /\ UNCHANGED <<mapping_templates, last_new, pc, callVars, history, rt, ld>>

ToMappingNext ==
    \/ CallToMapping
    \/ DropToMapping

ToMappingSpec == Init /\ [][ToMappingNext]_vars

(***************************************************************************)
(* Calls on converters in which two templates write the same dest key.     *)
(***************************************************************************)
OverlapLists ==
    {<<"AllExperts", "Alias">>, <<"Alias", "AllExperts">>, <<"Split3", "Split3">>}

OverlapInit ==
    /\ mapping_templates \in OverlapLists
    /\ last_new = [made |-> FALSE, raised |-> FALSE, name |-> ""]
    /\ pc = "idle"
    /\ NoCall
    /\ tm = NoToMapping
    /\ history = [templates |-> mapping_templates, called |-> FALSE, failed |-> FALSE]
    /\ rt = NoRoundTrip
    /\ ld = NoLoad

OverlapSpec == OverlapInit /\ [][CallsNext]_vars

(***************************************************************************)
(* Converting there and back: F.convert on a state dict, then G.convert on *)
(* what F returned, with the same bounds, G being the declared inverse of  *)
(* F.                                                                      *)
(***************************************************************************)
RoundTripPairs ==
    {[F |-> <<"PerLayer">>, G |-> <<"PerLayerBack">>],
     [F |-> <<"AllExperts">>, G |-> <<"ExpertsApart">>],
     [F |-> <<"Split3">>, G |-> <<"Join3">>],
     [F |-> <<"Join3">>, G |-> <<"Split3">>],
     [F |-> <<"Join3", "PerLayer">>, G |-> <<"Split3", "PerLayerBack">>]}

RoundTripDicts ==
    {DictUnion(DictUnion(w, e), DictUnion(l, x)) :
        w \in SplitParts \cup {EmptyDict},
        e \in ExpertParts \cup {EmptyDict},
        l \in LayerParts \cup {EmptyDict},
        x \in TripleParts \cup {EmptyDict}}

\* the state dicts F is called with: keys of the kinds its templates read
RoundTripDictsFor(templates) ==
    {sd \in RoundTripDicts : \A k \in DOMAIN sd : k[1] \in ReadKinds(templates)}

\* mid = StateConverter(F).convert(S, bounds)
ConvertForward ==
    /\ rt.stage = "none"
    /\ \E p \in RoundTripPairs :
          \E sd \in RoundTripDictsFor(p.F), bounds \in BoundsChoices :
             rt' = [stage |-> "forward", F |-> p.F, G |-> p.G, S |-> sd,
                    bounds |-> bounds, mid |-> Convert(p.F, sd, bounds),
                    back |-> NoResult]
    /\ UNCHANGED <<mapping_templates, last_new, pc, callVars, tm, history, ld>>

\* back = StateConverter(G).convert(mid, bounds), if F returned a dict
ConvertBack ==
    /\ rt.stage = "forward"
    /\ rt.mid.kind = "dict"
    /\ rt' = [rt EXCEPT !.stage = "back",
                        !.back = Convert(rt.G, rt.mid.dict, rt.bounds)]
    /\ UNCHANGED <<mapping_templates, last_new, pc, callVars, tm, history, ld>>

\* the results are dropped
DropRoundTrip ==
    /\ rt.stage # "none"
    /\ rt' = NoRoundTrip
    /\ UNCHANGED <<mapping_templates, last_new, pc, callVars, tm, history, ld>>

RoundTripNext ==
    \/ ConvertForward
    \/ ConvertBack
    \/ DropRoundTrip

RoundTripSpec == Init /\ [][RoundTripNext]_vars

(***************************************************************************)
(* load_hf_model (nn/hf/checkpoint.py), from the layer check on.  The HF   *)
(* model that from_pretrained loaded is given by its number of layers and  *)
(* its state dict, a sequence of <<key, tensor>> in iteration order;       *)
(* key_mapping is the dict get_key_mapping_from_hf returned.               *)
(***************************************************************************)
MaxLayers == 2

\* a state of the OLMo-core model: a plain tensor or a DTensor
PlainState(t) == [is_dtensor |-> FALSE, t |-> t]
DTensorState(t) == [is_dtensor |-> TRUE, t |-> t]

\* the state stored under the OLMo-core key: distribute_tensor keeps the
\* global values of hf_state on the mesh of the state it replaces
NewState(olmo_core_state, hf_state) ==
    IF olmo_core_state.is_dtensor THEN DTensorState(hf_state)
    ELSE PlainState(hf_state)

HfStateDicts ==
    {<<>>,
     <<<<Key1("h"), T2b>>>>,
     <<<<Key1("h"), T2b>>, <<Key1("g"), T3>>>>,
     <<<<Key1("g"), T3>>, <<Key1("h"), T2b>>>>}

KeyMappings ==
    UNION {[D -> {Key1("a"), Key1("b"), Key1("c")}] :
              D \in {{Key1("h"), Key1("g")}, {Key1("h")}}}

ModelStateDicts ==
    {DictOf(<<<<Key1("a"), PlainState(T2a)>>>>),
     DictOf(<<<<Key1("a"), PlainState(T2a)>>, <<Key1("b"), DTensorState(T2a)>>>>)}

\* raise: the call ends with the error of the given line
LoadRaised(l, kind, line) ==
    [l EXCEPT !.pc = "raised", !.error = [kind |-> kind, line |-> line]]

\* load_hf_model(dir, model_state_dict, n_layers), up to the loop: the layer
\* check and unupdated_keys
CallLoadMutant ==
    /\ ld.pc = "none"
    /\ \E n \in 1..MaxLayers, h \in 1..MaxLayers, items \in HfStateDicts,
          km \in KeyMappings, msd \in ModelStateDicts :
          LET called == [NoLoad EXCEPT !.n_layers = n, !.hf_layers = h,
                                       !.hf_state_dict = items, !.key_mapping = km,
                                       !.model_state_dict = msd,
                                       !.arg_model_state_dict = msd]
          IN  ld' = IF n # h
                    THEN LoadRaised([called EXCEPT !.model_state_dict =
                                        [k \in DOMAIN msd |-> PlainState(T0)]],
                                    "LayersError", 88)
                    ELSE [called EXCEPT !.pc = "loop", !.j = 1,
                                        !.unupdated_keys = DOMAIN msd]
    /\ UNCHANGED <<mapping_templates, last_new, pc, callVars, tm, history, rt>>

CallLoad ==
    /\ ld.pc = "none"
    /\ \E n \in 1..MaxLayers, h \in 1..MaxLayers, items \in HfStateDicts,
          km \in KeyMappings, msd \in ModelStateDicts :
          LET called == [NoLoad EXCEPT !.n_layers = n, !.hf_layers = h,
                                       !.hf_state_dict = items, !.key_mapping = km,
                                       !.model_state_dict = msd,
                                       !.arg_model_state_dict = msd]
          IN  ld' = IF n # h
                    THEN LoadRaised(called, "LayersError", 88)
                    ELSE [called EXCEPT !.pc = "loop", !.j = 1,
                                        !.unupdated_keys = DOMAIN msd]
    /\ UNCHANGED <<mapping_templates, last_new, pc, callVars, tm, history, rt>>

\* one iteration of `for hf_key, hf_state in hf_state_dict.items()`
LoadStepMutant ==
    /\ ld.pc = "loop"
    /\ ld.j <= Len(ld.hf_state_dict)
    /\ LET hf_key == ld.hf_state_dict[ld.j][1]
           hf_state == ld.hf_state_dict[ld.j][2]
       IN  IF hf_key \notin DOMAIN ld.key_mapping
           THEN ld' = LoadRaised(ld, "KeyError", 99)
           ELSE LET olmo_core_key == ld.key_mapping[hf_key]
                IN  IF olmo_core_key \notin DOMAIN ld.model_state_dict
                    THEN ld' = LoadRaised(ld, "KeyError", 100)
                    ELSE ld' = [ld EXCEPT
                                  !.model_state_dict =
                                      DictSet(@, olmo_core_key,
                                              NewState(@[olmo_core_key], hf_state)),
                                  !.unupdated_keys = @ \ {olmo_core_key},
                                  !.j = @ + 1]
    /\ UNCHANGED <<mapping_templates, last_new, pc, callVars, tm, history, rt>>

LoadStep ==
    /\ ld.pc = "loop"
    /\ ld.j <= Len(ld.hf_state_dict)
    /\ LET hf_key == ld.hf_state_dict[ld.j][1]
           hf_state == ld.hf_state_dict[ld.j][2]
       IN  IF hf_key \notin DOMAIN ld.key_mapping
           THEN ld' = LoadRaised(ld, "KeyError", 99)
           ELSE LET olmo_core_key == ld.key_mapping[hf_key]
                IN  IF olmo_core_key \notin DOMAIN ld.model_state_dict
                    THEN ld' = LoadRaised(ld, "KeyError", 100)
                    ELSE LET set == [ld EXCEPT
                                       !.model_state_dict =
                                           DictSet(@, olmo_core_key,
                                                   NewState(@[olmo_core_key], hf_state))]
                         IN  IF olmo_core_key \notin ld.unupdated_keys
                             THEN ld' = LoadRaised(set, "KeyError", 111)
                             ELSE ld' = [set EXCEPT
                                           !.unupdated_keys = @ \ {olmo_core_key},
                                           !.j = @ + 1]
    /\ UNCHANGED <<mapping_templates, last_new, pc, callVars, tm, history, rt>>

\* after the loop: the check of unupdated_keys and the return
LoadFinish ==
    /\ ld.pc = "loop"
    /\ ld.j > Len(ld.hf_state_dict)
    /\ ld' = IF Cardinality(ld.unupdated_keys) > 0
             THEN LoadRaised(ld, "NotSetError", 114)
             ELSE [ld EXCEPT !.pc = "returned"]
    /\ UNCHANGED <<mapping_templates, last_new, pc, callVars, tm, history, rt>>

\* the call is over
DropLoad ==
    /\ ld.pc \in {"returned", "raised"}
    /\ ld' = NoLoad
    /\ UNCHANGED <<mapping_templates, last_new, pc, callVars, tm, history, rt>>

LoadNext ==
    \/ CallLoad
    \/ LoadStep
    \/ LoadFinish
    \/ DropLoad

LoadSpec == Init /\ [][LoadNext]_vars

(***************************************************************************)
(* Properties.                                                             *)
(***************************************************************************)
Finished == pc \in {"returned", "raised"}

\* a convert call whose _get_mappings returned, now finished
ConvertFinished == op = "convert" /\ Finished /\ outcome.kind # "AssertionError"

\* the source keys the mappings of a list claim
SourceKeysOf(mappings) == UNION {Elems(mappings[j].source_keys) : j \in DOMAIN mappings}

\* the dest keys the mappings of a list name
DestKeysOf(mappings) == UNION {Elems(mappings[j].dest_keys) : j \in DOMAIN mappings}

\* the source keys of the call that no mapping claims
Unclaimed == DOMAIN arg_state_dict \ SourceKeysOf(state_mappings)

\* mapping j of the call fails when applied to the caller's state dict
FailsAt(j) == StateChunks(arg_state_dict, state_mappings[j]).err # ""

\* a sequence of keys in strictly ascending order
Ascending(ks) == \A j \in 1..(Len(ks) - 1) : StrLess(ks[j], ks[j + 1])

\* the coverage error raised after the whole loop, listing exactly the
\* unclaimed keys in sorted order
CoverageErrorOfUnclaimed ==
    /\ pc = "raised"
    /\ outcome.kind = "CoverageError"
    /\ i = Len(state_mappings) + 1
    /\ Elems(outcome.keys) = Unclaimed
    /\ Len(outcome.keys) = Cardinality(Unclaimed)
    /\ Ascending(outcome.keys)

\* C1 as stated: whenever a source key is in the source_keys of no mapping,
\* convert raises the coverage error after all mappings have been applied,
\* listing exactly the unclaimed keys in sorted order; a normal return means
\* every source key belongs to some applied mapping.
C1_AsStated ==
    ConvertFinished =>
        /\ (Unclaimed # {} => CoverageErrorOfUnclaimed)
        /\ (pc = "returned" => Unclaimed = {})

\* C1, amended: with an unclaimed source key convert never returns normally;
\* unless one of the mappings itself fails when applied, it raises the
\* coverage error after all mappings have been applied, and a coverage error
\* always lists exactly the unclaimed keys in sorted order; a normal return
\* means every source key belongs to some applied mapping.
C1_Coverage ==
    ConvertFinished =>
        /\ (Unclaimed # {} => pc = "raised")
        /\ (Unclaimed # {} /\ (\A j \in DOMAIN state_mappings : ~FailsAt(j))
               => CoverageErrorOfUnclaimed)
        /\ (outcome.kind = "CoverageError" => CoverageErrorOfUnclaimed)
        /\ (pc = "returned" => Unclaimed = {})

\* C1 witness: a coverage error after a mapping has been applied
C1_Witness ==
    /\ ConvertFinished
    /\ outcome.kind = "CoverageError"
    /\ Len(state_mappings) >= 1
    /\ Len(outcome.keys) >= 1

\* the number of mappings of the call that list the key
ClaimCount(k) ==
    Cardinality({j \in DOMAIN state_mappings : k \in Elems(state_mappings[j].source_keys)})

\* C2: a normal return of convert implies that each source key is in the
\* source_keys of exactly one applied mapping (a key two mappings list makes
\* convert raise).
C2_ExactlyOnce ==
    (ConvertFinished /\ pc = "returned") =>
        \A k \in DOMAIN arg_state_dict : ClaimCount(k) = 1

\* C3: when convert returns normally, the key set of the returned dict is
\* the union of dest_keys over all mappings of the call.
C3_AllDestKeys ==
    (ConvertFinished /\ pc = "returned") =>
        DOMAIN heap[outcome.ref] = DestKeysOf(state_mappings)

\* mapping j of the call reaches torch.chunk with an axis that the number of
\* dest keys does not divide
UnevenAt(j) ==
    LET mapping == state_mappings[j]
        original_state == TransformState(arg_state_dict, mapping)
    IN  /\ IsTensorState(arg_state_dict, mapping.source_keys)
        /\ original_state.err = ""
        /\ mapping.dest_chunk_dim < Len(original_state.t.shape)
        /\ original_state.t.shape[mapping.dest_chunk_dim + 1] % Len(mapping.dest_keys) # 0

\* C4: when the post-transform size along dest_chunk_dim is not divisible by
\* len(dest_keys), convert raises instead of returning a dictionary.
C4_EvenChunks ==
    (ConvertFinished /\ \E j \in DOMAIN state_mappings : UnevenAt(j)) => pc = "raised"

\* mapping j of the call has a source key holding a non-tensor value
NonTensorAt(j) ==
    \E k \in Elems(state_mappings[j].source_keys) : ~arg_state_dict[k].is_tensor

\* C5: a non-tensor value at any position of a mapping's source_keys makes
\* convert raise the unsupported-shape RuntimeError (here: when the loop
\* reaches that mapping), and the value is never passed through to an output.
C5_NonTensorRejected ==
    (ConvertFinished /\ \E j \in DOMAIN state_mappings : NonTensorAt(j)) =>
        /\ pc = "raised"
        /\ (i \in DOMAIN state_mappings /\ NonTensorAt(i)
               => outcome.kind = "NonTensorError")

\* C6: a convert that ends in an error returns no dictionary, and the error
\* is that of the first failing mapping in discovery order: the loop stops
\* there, and the coverage error is raised only when no mapping failed.
C6_NoPartialResult ==
    (op = "convert" /\ pc = "raised") =>
        /\ outcome.ref = ""
        /\ outcome.kind \in {"NonTensorError", "TypeError", "ShapeError"} =>
              /\ i \in DOMAIN state_mappings
              /\ \A j \in 1..(i - 1) : ~FailsAt(j)
              /\ StateChunks(arg_state_dict, state_mappings[i]).err = outcome.kind
        /\ outcome.kind = "CoverageError" =>
              \A j \in DOMAIN state_mappings : ~FailsAt(j)

\* C6 witness: a mapping fails after an earlier one was applied and written
C6_Witness ==
    /\ op = "convert" /\ pc = "raised"
    /\ outcome.kind \in {"NonTensorError", "TypeError", "ShapeError"}
    /\ i >= 2 /\ i < Len(state_mappings)
    /\ heap["converted"] # EmptyDict

\* C7: convert and get_mappings never mutate their inputs: the caller's
\* state dict and bounds are, at every point of a call and after it, what
\* they were when the call began, and the dict convert returns is not the
\* source dict object.
C7_InputsUnchanged ==
    /\ heap["state_dict"] = arg_state_dict
    /\ placeholder_bounds = arg_bounds
    /\ (op = "convert" /\ pc = "returned" => outcome.ref # "state_dict")

\* C7 witness: a convert that wrote output keys and returned
C7_Witness ==
    /\ op = "convert" /\ pc = "returned"
    /\ arg_state_dict # EmptyDict
    /\ heap[outcome.ref] # EmptyDict

\* a per-placeholder expansion on a side given as a tuple
ExpandsTupleSide(t) ==
    \/ (t.source_key_per_placeholder # <<>> /\ t.source_template_keys.is_tuple)
    \/ (t.dest_key_per_placeholder # <<>> /\ t.dest_template_keys.is_tuple)

\* C8: constructing a template raises ValueError exactly when a
\* per-placeholder expansion is set on a side given as a tuple, so no
\* template that exists has one.
C8_PostInit ==
    /\ (last_new.made => (last_new.raised <=> ExpandsTupleSide(Template(last_new.name))))
    /\ \A j \in DOMAIN mapping_templates : ~ExpandsTupleSide(Template(mapping_templates[j]))

\* C8 witness: a constructor call raised, another one before it succeeded
C8_Witness ==
    /\ last_new.made /\ last_new.raised
    /\ Template(last_new.name).dest_key_per_placeholder # <<>>
    /\ Len(mapping_templates) >= 1

\* every assignment over the placeholders of the bounds: each placeholder is
\* given one of 0 .. bound-1 or is unset
Assignments(bounds) ==
    {a \in [DOMAIN bounds -> {None} \cup (0..(MaxBound - 1))] :
        \A j \in DOMAIN bounds : a[j] = None \/ a[j] < bounds[j][2]}

\* the concrete mappings a template resolves to under some assignment
ResolvedSet(t, bounds) ==
    {r.mapping[1] :
        r \in {x \in {ToMapping(t, [j \in DOMAIN bounds |-> <<bounds[j][1], a[j]>>], bounds) :
                         a \in Assignments(bounds)} : x.tag = "mapping"}}

ResolvedTable ==
    [tb \in CatalogueNames \X BoundsChoices |-> ResolvedSet(Template(tb[1]), tb[2])]

\* C9: get_mappings returns exactly the mappings obtained by resolving each
\* template under each assignment of the Cartesian product, kept if and only
\* if every source key is a key of the state dict.
C9_GetMappingsExact ==
    (op = "get_mappings" /\ pc = "returned") =>
        Elems(outcome.mappings) =
            {m \in UNION {ResolvedTable[<<mapping_templates[t], arg_bounds>>] :
                             t \in DOMAIN mapping_templates} :
                Elems(m.source_keys) \subseteq DOMAIN arg_state_dict}

\* C9 witness: a resolvable mapping is dropped for a missing source key
\* while another is returned
C9_Witness ==
    /\ op = "get_mappings" /\ pc = "returned"
    /\ Len(outcome.mappings) >= 1
    /\ \E t \in DOMAIN mapping_templates :
          \E m \in ResolvedTable[<<mapping_templates[t], arg_bounds>>] :
             /\ Len(m.source_keys) >= 2
             /\ Elems(m.source_keys) \cap DOMAIN arg_state_dict # {}
             /\ ~(Elems(m.source_keys) \subseteq DOMAIN arg_state_dict)

\* the template refers to the placeholder: in a key template string, as a
\* per-placeholder expansion, or in unflatten_dim's shape
RefersTo(t, placeholder) ==
    \/ \E j \in DOMAIN t.source_template_keys.strs :
          Contains(t.source_template_keys.strs[j], placeholder)
    \/ \E j \in DOMAIN t.dest_template_keys.strs :
          Contains(t.dest_template_keys.strs[j], placeholder)
    \/ t.source_key_per_placeholder = placeholder
    \/ t.dest_key_per_placeholder = placeholder
    \/ /\ t.unflatten_dim # <<>>
       /\ \E j \in DOMAIN t.unflatten_dim[1].shape :
             /\ t.unflatten_dim[1].shape[j].is_placeholder
             /\ t.unflatten_dim[1].shape[j].placeholder = placeholder

\* C10: with no EXPERT entry in the bounds, a template that refers to EXPERT
\* resolves to None under every assignment, and no mapping get_mappings or
\* convert selects comes from it.
C10_ExpertNeedsBound ==
    (op # "" /\ EXPERT \notin PairKeys(arg_bounds)) =>
        \A t \in DOMAIN mapping_templates :
           RefersTo(Template(mapping_templates[t]), EXPERT) =>
              /\ ResolvedTable[<<mapping_templates[t], arg_bounds>>] = {}
              /\ \A m \in Elems(state_mappings) \cup Elems(outcome.mappings) :
                    m \notin ResolvedTable[<<mapping_templates[t], arg_bounds>>]

\* the placeholder has an entry in the bounds
Bounded(placeholder, bounds) == \E j \in DOMAIN bounds : bounds[j][1] = placeholder

\* the assignment gives the placeholder a concrete integer
Assigned(placeholder, values) ==
    \E j \in DOMAIN values : values[j][1] = placeholder /\ values[j][2] # None

\* the integer the assignment gives the placeholder
ValueOf(placeholder, values) ==
    values[CHOOSE j \in DOMAIN values : values[j][1] = placeholder][2]

\* C12: to_mapping has exactly two outcomes: for every constructed template,
\* every bounds and every assignment over the placeholders of the bounds it
\* returns a concrete StateMapping or None, and never ends in an exception.
C12_TwoOutcomes == tm.called => tm.result.tag \in {"mapping", "None"}

\* the two sides of a template: <<template strings, expansion placeholder>>
Sides(t) ==
    {<<t.source_template_keys.strs, t.source_key_per_placeholder>>,
     <<t.dest_template_keys.strs, t.dest_key_per_placeholder>>}

\* C17: when to_mapping resolves, for each side's template strings and every
\* placeholder P other than the side's expansion placeholder, P occurs in the
\* string exactly when the assignment gives P a concrete integer, and no
\* placeholder text is left in a resolved key (each occurrence was replaced
\* by the decimal string of the assigned value).
C17_SymmetricCheck ==
    (tm.called /\ tm.result.tag = "mapping") =>
        /\ \A side \in Sides(tm.template) :
              \A j \in DOMAIN side[1] :
                 \A P \in {LAYER, EXPERT} \ {side[2]} :
                    Contains(side[1][j], P) <=> Assigned(P, tm.placeholder_values)
        /\ \A k \in Elems(tm.result.mapping[1].source_keys)
                      \cup Elems(tm.result.mapping[1].dest_keys) :
              \A P \in {LAYER, EXPERT} : ~Contains(k, P)

\* a placeholder the template requires: a per-placeholder expansion of either
\* side or a placeholder entry of unflatten_dim's shape
Requires(t, placeholder) ==
    \/ t.source_key_per_placeholder = placeholder
    \/ t.dest_key_per_placeholder = placeholder
    \/ /\ t.unflatten_dim # <<>>
       /\ \E j \in DOMAIN t.unflatten_dim[1].shape :
             /\ t.unflatten_dim[1].shape[j].is_placeholder
             /\ t.unflatten_dim[1].shape[j].placeholder = placeholder

\* C18: if a required placeholder (an expansion placeholder of either side,
\* or a placeholder entry of unflatten_dim's shape) has no entry in the
\* bounds, to_mapping returns None under every assignment; it returns before
\* any key is materialised, so no error of the materialisation shows.
C18_RequiredPlaceholders ==
    (tm.called /\ \E P \in {LAYER, EXPERT} :
                     Requires(tm.template, P) /\ ~Bounded(P, tm.placeholder_bounds))
        => tm.result.tag = "None"

\* C18 witness: a missing expansion placeholder that does not even occur in
\* its template string, with non-empty bounds and a concrete assignment
C18_Witness ==
    /\ tm.called
    /\ tm.template.source_key_per_placeholder = LAYER
    /\ ~Bounded(LAYER, tm.placeholder_bounds)
    /\ ~Contains(tm.template.source_template_keys.strs[1], LAYER)
    /\ Assigned(EXPERT, tm.placeholder_values)
    /\ tm.result.tag = "None"

\* C19: every non-null result of to_mapping has the template's unflatten
\* axis, a shape in which each placeholder entry is the placeholder's bound
\* and each literal integer is kept, and the template's source_concat_dim,
\* dims_permutation, flatten_dims and dest_chunk_dim.
C19_TransformParameters ==
    (tm.called /\ tm.result.tag = "mapping") =>
        LET t == tm.template
            m == tm.result.mapping[1]
        IN  /\ (t.unflatten_dim = <<>>) <=> (m.unflatten_dim = <<>>)
            /\ t.unflatten_dim # <<>> =>
                  /\ m.unflatten_dim[1].dim = t.unflatten_dim[1].dim
                  /\ Len(m.unflatten_dim[1].shape) = Len(t.unflatten_dim[1].shape)
                  /\ \A j \in DOMAIN t.unflatten_dim[1].shape :
                        LET d == t.unflatten_dim[1].shape[j]
                        IN  m.unflatten_dim[1].shape[j] =
                               IF d.is_placeholder
                               THEN ValueOf(d.placeholder, tm.placeholder_bounds)
                               ELSE d.dim
            /\ m.source_concat_dim = t.source_concat_dim
            /\ m.dims_permutation = t.dims_permutation
            /\ m.flatten_dims = t.flatten_dims
            /\ m.dest_chunk_dim = t.dest_chunk_dim

\* C19 witness: a resolved mapping whose unflatten placeholder was assigned a
\* value different from its bound, with the other transform parameters set
C19_Witness ==
    /\ tm.called /\ tm.result.tag = "mapping"
    /\ tm.template.unflatten_dim # <<>>
    /\ tm.template.dims_permutation # <<>>
    /\ \E j \in DOMAIN tm.template.unflatten_dim[1].shape :
          LET d == tm.template.unflatten_dim[1].shape[j]
          IN  /\ d.is_placeholder
              /\ Assigned(d.placeholder, tm.placeholder_values)
              /\ ValueOf(d.placeholder, tm.placeholder_values)
                    # ValueOf(d.placeholder, tm.placeholder_bounds)

\* the template string with its occurrence of the placeholder replaced by
\* the decimal string of n
Splice(template, placeholder, n) ==
    LET q == CHOOSE q \in 1..Len(template) : StartsWithAt(template, placeholder, q)
    IN  SubSeq(template, 1, q - 1) \o Str(n)
           \o SubSeq(template, q + Len(placeholder), Len(template))

\* the keys of a per-placeholder expansion: indices 0 .. n-1 in ascending order
ExpansionKeys(template, placeholder, n) ==
    [k \in 1..n |-> Splice(template, placeholder, k - 1)]

\* unflatten, then permute, then flatten, each only if the mapping sets it
AfterCat(t, mapping) ==
    LET unfl == IF mapping.unflatten_dim = <<>> THEN Ok(t)
                ELSE TorchUnflatten(t, mapping.unflatten_dim[1].dim,
                                    mapping.unflatten_dim[1].shape)
        perm == IF unfl.err # "" THEN unfl
                ELSE IF mapping.dims_permutation = <<>> THEN unfl
                ELSE TorchPermute(unfl.t, mapping.dims_permutation[1])
    IN  IF perm.err # "" THEN perm
        ELSE IF mapping.flatten_dims = <<>> THEN perm
        ELSE TorchFlatten(perm.t, mapping.flatten_dims[1][1], mapping.flatten_dims[1][2])

\* the chunks of the tensor after the steps that follow the concatenation
ChunksAfterCat(t, mapping) ==
    LET after == AfterCat(t, mapping)
    IN  IF after.err # "" THEN [err |-> after.err, chunks |-> <<>>]
        ELSE TorchChunk(after.t, Len(mapping.dest_keys), mapping.dest_chunk_dim)

\* the mapping's chunks k = 1 .. are what the output holds under its dest keys
Written(mapping, expected) ==
    /\ expected.err = ""
    /\ \A k \in 1..ZipLen(mapping.dest_keys, expected.chunks) :
          /\ mapping.dest_keys[k] \in DOMAIN heap[converted_ref]
          /\ heap[converted_ref][mapping.dest_keys[k]] = expected.chunks[k]

\* the source values of a mapping are tensors of one dimension
FlatSources(mapping) ==
    \A k \in DOMAIN mapping.source_keys :
       /\ arg_state_dict[mapping.source_keys[k]].is_tensor
       /\ Len(arg_state_dict[mapping.source_keys[k]].shape) = 1

\* the elements of the source tensors one after the other, in the order of
\* the given keys
Joined(keys) ==
    LET data == Flatten([k \in DOMAIN keys |-> arg_state_dict[keys[k]].data])
    IN  Tensor(<<Len(data)>>, data)

\* C11: for a template with a per-placeholder expansion of P on the source
\* (resp. dest) side and bounds[P] = n, every non-null result of to_mapping
\* has exactly n source (resp. dest) keys, the i-th being the template with P
\* replaced by i, for i = 0 .. n-1 in ascending order; and convert
\* concatenates the source tensors in that same order.
C11_ExpansionComplete ==
    op # "" =>
        /\ \A t \in DOMAIN mapping_templates :
              LET T == Template(mapping_templates[t])
                  filled == FilledTable[<<mapping_templates[t], arg_bounds>>]
              IN  \A c \in DOMAIN filled :
                     filled[c].tag = "mapping" =>
                        /\ T.source_key_per_placeholder # <<>> =>
                              filled[c].mapping[1].source_keys =
                                 ExpansionKeys(T.source_template_keys.strs[1],
                                               T.source_key_per_placeholder,
                                               ValueOf(T.source_key_per_placeholder,
                                                       arg_bounds))
                        /\ T.dest_key_per_placeholder # <<>> =>
                              filled[c].mapping[1].dest_keys =
                                 ExpansionKeys(T.dest_template_keys.strs[1],
                                               T.dest_key_per_placeholder,
                                               ValueOf(T.dest_key_per_placeholder,
                                                       arg_bounds))
        /\ op = "convert" =>
              \A j \in 1..(i - 1) :
                 (FlatSources(state_mappings[j]) /\ state_mappings[j].source_concat_dim = 0)
                    => Written(state_mappings[j],
                               ChunksAfterCat(Joined(state_mappings[j].source_keys),
                                              state_mappings[j]))

\* C11 witness: a convert applied a mapping with an expansion on both sides
\* over two indices holding different tensors
C11_Witness ==
    /\ op = "convert" /\ pc = "returned"
    /\ \E j \in DOMAIN state_mappings :
          /\ Len(state_mappings[j].source_keys) >= 2
          /\ Len(state_mappings[j].dest_keys) >= 2
          /\ arg_state_dict[state_mappings[j].source_keys[1]]
                # arg_state_dict[state_mappings[j].source_keys[2]]

\* the chunks of chunk(flatten(permute(unflatten(cat(sources)))))
PipelineChunks(mapping) ==
    LET cat == TorchCat([k \in DOMAIN mapping.source_keys |->
                            arg_state_dict[mapping.source_keys[k]]],
                        mapping.source_concat_dim)
    IN  IF cat.err # "" THEN [err |-> cat.err, chunks |-> <<>>]
        ELSE ChunksAfterCat(cat.t, mapping)

\* C13: the tensor convert writes to dest key j of a mapping is the j-th
\* chunk of flatten(permute(unflatten(cat(sources)))), an unset step being
\* the identity; a tensor operation fails in convert only where it fails in
\* that order of the steps.
C13_PipelineOrder ==
    op = "convert" =>
        /\ \A j \in 1..(i - 1) : Written(state_mappings[j], PipelineChunks(state_mappings[j]))
        /\ (pc = "raised" /\ outcome.kind \in {"TypeError", "ShapeError"})
              => PipelineChunks(state_mappings[i]).err = outcome.kind

\* C13 witness: a convert applied a mapping that sets every step, to two
\* different source tensors
C13_Witness ==
    /\ op = "convert" /\ pc = "returned"
    /\ \E j \in DOMAIN state_mappings :
          /\ Len(state_mappings[j].source_keys) >= 2
          /\ state_mappings[j].unflatten_dim # <<>>
          /\ state_mappings[j].dims_permutation # <<>>
          /\ state_mappings[j].flatten_dims # <<>>
          /\ arg_state_dict[state_mappings[j].source_keys[1]]
                # arg_state_dict[state_mappings[j].source_keys[2]]

\* the call is convert on a converter of one template with the same
\* per-placeholder expansion on both sides, the bounds are exactly that
\* placeholder's, and the state dict holds exactly the expanded source keys,
\* all tensors of one shape
PerIndexCall ==
    /\ op = "convert"
    /\ Len(mapping_templates) = 1
    /\ Template(mapping_templates[1]).source_key_per_placeholder # <<>>
    /\ Template(mapping_templates[1]).dest_key_per_placeholder
          = Template(mapping_templates[1]).source_key_per_placeholder
    /\ Len(arg_bounds) = 1
    /\ arg_bounds[1][1] = Template(mapping_templates[1]).source_key_per_placeholder
    /\ arg_bounds[1][2] >= 1
    /\ DOMAIN arg_state_dict
          = Elems(ExpansionKeys(Template(mapping_templates[1]).source_template_keys.strs[1],
                                arg_bounds[1][1], arg_bounds[1][2]))
    /\ \A k1, k2 \in DOMAIN arg_state_dict :
          /\ arg_state_dict[k1].is_tensor
          /\ arg_state_dict[k1].shape = arg_state_dict[k2].shape

\* the output holds exactly the expanded dest keys, dest key i equal to the
\* tensor of source key i
PerIndexResult ==
    LET T == Template(mapping_templates[1])
        n == arg_bounds[1][2]
        src == ExpansionKeys(T.source_template_keys.strs[1], arg_bounds[1][1], n)
        dst == ExpansionKeys(T.dest_template_keys.strs[1], arg_bounds[1][1], n)
    IN  /\ pc = "returned"
        /\ DOMAIN heap[outcome.ref] = Elems(dst)
        /\ \A k \in 1..n : heap[outcome.ref][dst[k]] = arg_state_dict[src[k]]

\* C14: for a single template with the same placeholder P as source and dest
\* per-placeholder expansion, bounds {P: n} with n >= 1 and a state dict of
\* exactly the n expanded source keys with equal-shaped tensors, convert
\* returns exactly the n expanded dest keys, dest key i holding a tensor
\* equal to source tensor i.
C14_PerIndex ==
    (PerIndexCall /\ pc \in {"returned", "raised"}) => PerIndexResult

\* C16: the converter is stateless across calls: after any sequence of
\* get_mappings and convert calls, failing ones included, mapping_templates
\* is the list the converter was constructed with, and the result of a call
\* (the returned value or the error) is a function of the templates, the
\* state dict and the bounds alone, whatever calls preceded it.
C16_Stateless ==
    /\ mapping_templates = history.templates
    /\ (Finished /\ op = "convert") =>
          LET r == Convert(history.templates, arg_state_dict, arg_bounds)
          IN  /\ (pc = "returned") = (r.kind = "dict")
              /\ pc = "returned" => heap[outcome.ref] = r.dict
              /\ pc = "raised" => (outcome.kind = r.kind /\ outcome.keys = r.keys)
    /\ (Finished /\ op = "get_mappings") =>
          LET g == GetMappings(history.templates, DOMAIN arg_state_dict, arg_bounds)
          IN  /\ (pc = "raised") = g.raised
              /\ pc = "returned" => outcome.mappings = g.mappings

\* C16 witness: a convert returned a dict of two or more keys after earlier
\* calls on the same converter, one of which failed
C16_Witness ==
    /\ op = "convert" /\ pc = "returned"
    /\ history.called /\ history.failed
    /\ Cardinality(DOMAIN heap[outcome.ref]) >= 2

\* the number of assignments over the placeholders after position j
Radix(bounds, j) ==
    Prod([k \in 1..(Len(bounds) - j) |-> bounds[j + k][2] + 1])

\* the assignment of rank r (from 0): placeholder j takes digit j of r in the
\* mixed radix of the bounds, the last placeholder being the least
\* significant; the digit equal to the bound stands for "unset"
AssignmentAt(bounds, r) ==
    [j \in DOMAIN bounds |->
        LET d == (r \div Radix(bounds, j)) % (bounds[j][2] + 1)
        IN  <<bounds[j][1], IF d < bounds[j][2] THEN d ELSE None>>]

\* the to_mapping results by template position, then by assignment rank
OrderedResults(templates, bounds) ==
    LET K == Radix(bounds, 0)
    IN  [x \in 1..(Len(templates) * K) |->
           ToMapping(Template(templates[((x - 1) \div K) + 1]),
                     AssignmentAt(bounds, (x - 1) % K), bounds)]

OrderedTable ==
    [tb \in ConverterLists \X BoundsChoices |-> OrderedResults(tb[1], tb[2])]

\* C20: the list get_mappings returns, which is the list convert applies in
\* order, is ordered by template position and then by assignment rank, the
\* assignments being the Cartesian product over the placeholders in the
\* bounds' order, each taking 0 .. bound-1 and then unset, the last
\* placeholder varying fastest; the filters drop entries without reordering.
C20_DiscoveryOrder ==
    ((op = "get_mappings" /\ pc = "returned") \/ (op = "convert" /\ i >= 1)) =>
        LET Kept(r) == /\ r.tag = "mapping"
                       /\ Elems(r.mapping[1].source_keys) \subseteq DOMAIN arg_state_dict
            sel == SelectSeq(OrderedTable[<<mapping_templates, arg_bounds>>], Kept)
            returned == IF op = "get_mappings" THEN outcome.mappings
                        ELSE state_mappings
        IN  returned = [j \in DOMAIN sel |-> sel[j].mapping[1]]

\* C20 witness: get_mappings returned, under bounds listing EXPERT before
\* LAYER, the mapping of (layer 1, expert 0) before that of (layer 0,
\* expert 1), followed by a mapping of the second template
C20_Witness ==
    /\ op = "get_mappings" /\ pc = "returned"
    /\ Len(arg_bounds) = 2 /\ arg_bounds[1][1] = EXPERT
    /\ Len(outcome.mappings) = 3
    /\ outcome.mappings[1].source_keys = << <<"p", ".", "1", ".", "0">> >>
    /\ outcome.mappings[2].source_keys = << <<"p", ".", "0", ".", "1">> >>
    /\ outcome.mappings[3].source_keys[1][1] = "l"

\* the chunk step of every mapping the templates give for the state dict
\* divides the size along dest_chunk_dim evenly by the number of dest keys
EvenlyDivisible(templates, sd, bounds) ==
    LET mappings == GetMappings(templates, DOMAIN sd, bounds).mappings
    IN  \A j \in DOMAIN mappings :
           LET original_state == TransformState(sd, mappings[j])
           IN  /\ original_state.err = ""
               /\ mappings[j].dest_chunk_dim < Len(original_state.t.shape)
               /\ original_state.t.shape[mappings[j].dest_chunk_dim + 1]
                     % Len(mappings[j].dest_keys) = 0

\* the source tensors each mapping concatenates have one shape
EqualSources(templates, sd, bounds) ==
    LET mappings == GetMappings(templates, DOMAIN sd, bounds).mappings
    IN  \A j \in DOMAIN mappings :
           \A k1, k2 \in Elems(mappings[j].source_keys) : sd[k1].shape = sd[k2].shape

\* no dest key is written twice
DistinctDest(templates, sd, bounds) ==
    LET mappings == GetMappings(templates, DOMAIN sd, bounds).mappings
    IN  /\ \A j \in DOMAIN mappings :
              Cardinality(Elems(mappings[j].dest_keys)) = Len(mappings[j].dest_keys)
        /\ \A j1, j2 \in DOMAIN mappings :
              j1 # j2 => Elems(mappings[j1].dest_keys) \cap Elems(mappings[j2].dest_keys) = {}

\* F covered S and returned, G was applied to the result, and the chunk
\* steps of both divide evenly
RoundTripCase ==
    /\ rt.stage = "back"
    /\ EvenlyDivisible(rt.F, rt.S, rt.bounds)
    /\ EvenlyDivisible(rt.G, rt.mid.dict, rt.bounds)

\* G returned a dict with the keys of S and equal tensors
RoundTripHolds ==
    /\ rt.back.kind = "dict"
    /\ rt.back.dict = rt.S

\* C15 as stated: for a template set F, its declared inverse G and every
\* state dict S that F fully covers with evenly divisible shapes,
\* G.convert(F.convert(S, bounds), bounds) has the keys of S and equal tensors.
C15_AsStated ==
    RoundTripCase => RoundTripHolds

\* C15 amended: the same, for the state dicts in which the source tensors
\* concatenated by one mapping of F have equal shapes and F writes no dest
\* key twice.
C15_RoundTrip ==
    (/\ RoundTripCase
     /\ EqualSources(rt.F, rt.S, rt.bounds)
     /\ DistinctDest(rt.F, rt.S, rt.bounds)) => RoundTripHolds

\* C15 witness: a round trip through a mapping that concatenates two
\* different tensors and reshapes the result gave back the state dict
C15_Witness ==
    /\ RoundTripCase
    /\ EqualSources(rt.F, rt.S, rt.bounds)
    /\ DistinctDest(rt.F, rt.S, rt.bounds)
    /\ RoundTripHolds
    /\ \E m \in Elems(GetMappings(rt.F, DOMAIN rt.S, rt.bounds).mappings) :
          /\ Len(m.source_keys) >= 2
          /\ m.unflatten_dim # <<>>
          /\ rt.S[m.source_keys[1]] # rt.S[m.source_keys[2]]

\* template t of the converter expands its placeholder on the source side
\* of a string "c.[P]", P has a bound, and no other template of the
\* converter reads keys that begin with c
OnlyExpanding(t) ==
    LET T == Template(mapping_templates[t])
    IN  /\ T.source_key_per_placeholder # <<>>
        /\ T.source_template_keys.strs
              = << <<T.source_template_keys.strs[1][1], ".">> \o T.source_key_per_placeholder >>
        /\ Bounded(T.source_key_per_placeholder, arg_bounds)
        /\ \A u \in DOMAIN mapping_templates :
              u # t => \A s \in Elems(Template(mapping_templates[u]).source_template_keys.strs) :
                          s[1] # T.source_template_keys.strs[1][1]

\* the keys of the call's state dict that template t covers
HeldBy(t) ==
    {k \in DOMAIN arg_state_dict :
        k[1] = Template(mapping_templates[t]).source_template_keys.strs[1][1]}

\* the keys "c.j" of template t for j in lo .. hi-1
IndexedKeys(t, lo, hi) ==
    {KeyIdx(Template(mapping_templates[t]).source_template_keys.strs[1][1], j) :
        j \in lo..(hi - 1)}

\* the bound of the placeholder template t expands
BoundOf(t) == ValueOf(Template(mapping_templates[t]).source_key_per_placeholder, arg_bounds)

\* a finished convert call on a state dict that holds the keys of template t
\* for the indices 0 .. m-1, m >= 1
MismatchCase(t) ==
    /\ ConvertFinished
    /\ OnlyExpanding(t)
    /\ HeldBy(t) # {}
    /\ HeldBy(t) = IndexedKeys(t, 0, Cardinality(HeldBy(t)))

\* the coverage error was raised and lists, of the keys of template t,
\* exactly the given ones
CoverageReports(t, keys) ==
    /\ pc = "raised"
    /\ outcome.kind = "CoverageError"
    /\ Elems(outcome.keys) \cap HeldBy(t) = keys

\* no mapping of the call reads a key of template t
Discarded(t) == SourceKeysOf(state_mappings) \cap HeldBy(t) = {}

\* C21 as stated: with keys 0 .. m-1 held and bounds[P] = n, convert returns
\* only if n = m; if n > m the expanded mapping is discarded and the coverage
\* error reports all m keys; if n < m the coverage error reports the keys
\* n .. m-1.
C21_AsStated ==
    \A t \in DOMAIN mapping_templates :
       MismatchCase(t) =>
          LET m == Cardinality(HeldBy(t))
              n == BoundOf(t)
          IN  /\ pc = "returned" => n = m
              /\ n > m => (Discarded(t) /\ CoverageReports(t, HeldBy(t)))
              /\ n < m => CoverageReports(t, IndexedKeys(t, n, m))

\* C21 amended: with n # m convert never returns; if n > m the expanded
\* mapping is discarded; unless applying a mapping fails first, which raises
\* that mapping's error, the coverage error is raised and reports all m keys
\* if n > m and the keys n .. m-1 if n < m.
C21_BoundsMismatch ==
    \A t \in DOMAIN mapping_templates :
       MismatchCase(t) =>
          LET m == Cardinality(HeldBy(t))
              n == BoundOf(t)
              applied == \A j \in DOMAIN state_mappings : ~FailsAt(j)
          IN  /\ pc = "returned" => n = m
              /\ n > m => Discarded(t)
              /\ (n > m /\ applied) => CoverageReports(t, HeldBy(t))
              /\ (n < m /\ applied) => CoverageReports(t, IndexedKeys(t, n, m))
              /\ (n # m /\ ~applied) =>
                    /\ pc = "raised"
                    /\ i \in DOMAIN state_mappings
                    /\ FailsAt(i)
                    /\ outcome.kind = StateChunks(arg_state_dict, state_mappings[i]).err

\* C21 witness: with fewer indices in the bounds than in the state dict, the
\* expanded mapping was applied and the coverage error reports the rest
C21_Witness ==
    \E t \in DOMAIN mapping_templates :
       /\ MismatchCase(t)
       /\ BoundOf(t) < Cardinality(HeldBy(t))
       /\ ~Discarded(t)
       /\ CoverageReports(t, IndexedKeys(t, BoundOf(t), Cardinality(HeldBy(t))))

\* the chunks mapping j of the call yields on the caller's state dict
ChunksOf(j) == StateChunks(arg_state_dict, state_mappings[j]).chunks

\* the positions of mapping j's zip(dest_keys, chunks) that write dest key d
WritesOf(j, d) ==
    {k \in 1..ZipLen(state_mappings[j].dest_keys, ChunksOf(j)) :
        state_mappings[j].dest_keys[k] = d}

\* the mappings of the call that write dest key d
WritersOf(d) == {j \in DOMAIN state_mappings : WritesOf(j, d) # {}}

\* the greatest element of a non-empty set of numbers
Greatest(S) == CHOOSE x \in S : \A y \in S : y <= x

\* the chunk the last mapping in discovery order writes to dest key d
LastWritten(d) ==
    ChunksOf(Greatest(WritersOf(d)))[Greatest(WritesOf(Greatest(WritersOf(d)), d))]

\* C22: destination-key collisions are not detected: two mappings listing the
\* same dest key cause no error (convert returns whenever every mapping
\* applies and every source key is claimed), and the returned dict holds for
\* each key the chunk written by the last mapping in discovery order that
\* writes it, so it can have fewer keys than the mappings have dest keys.
C22_LastWriteWins ==
    ConvertFinished =>
        /\ ((\A j \in DOMAIN state_mappings : ~FailsAt(j)) /\ Unclaimed = {})
              => pc = "returned"
        /\ pc = "returned" =>
              /\ DOMAIN heap[outcome.ref]
                    = {d \in DestKeysOf(state_mappings) : WritersOf(d) # {}}
              /\ \A d \in DOMAIN heap[outcome.ref] :
                    heap[outcome.ref][d] = LastWritten(d)

\* C22 witness: convert returned a dict in which a key written by two
\* mappings with different chunks holds the later one, the dict having fewer
\* keys than the mappings have dest keys
C22_Witness ==
    /\ ConvertFinished /\ pc = "returned"
    /\ Len(state_mappings) = 2
    /\ \E d \in DOMAIN heap[outcome.ref] :
          /\ WritersOf(d) = {1, 2}
          /\ ChunksOf(1)[Greatest(WritesOf(1, d))] # heap[outcome.ref][d]
          /\ ChunksOf(2)[Greatest(WritesOf(2, d))] = heap[outcome.ref][d]
    /\ Cardinality(DOMAIN heap[outcome.ref])
          < Len(state_mappings[1].dest_keys) + Len(state_mappings[2].dest_keys)

\* the template of the direct call expands the placeholder on a side
Expands(t, placeholder) ==
    \/ t.source_key_per_placeholder = placeholder
    \/ t.dest_key_per_placeholder = placeholder

\* C23: a template with a per-placeholder expansion on P resolves only under
\* assignments in which P is unset: under every assignment that gives P a
\* concrete integer, to_mapping returns None.
C23_ExpansionNeedsUnset ==
    tm.called =>
        \A j \in DOMAIN tm.placeholder_values :
           (/\ Expands(tm.template, tm.placeholder_values[j][1])
            /\ tm.placeholder_values[j][2] # None) => tm.result.tag = "None"

\* the placeholder occurs in a template string of the side without being
\* the side's expansion placeholder
OccursPlain(side, placeholder) ==
    /\ side[2] # placeholder
    /\ \E j \in DOMAIN side[1] : Contains(side[1][j], placeholder)

\* the placeholder neither occurs in the side's strings nor is expanded there
Absent(side, placeholder) ==
    /\ side[2] # placeholder
    /\ \A j \in DOMAIN side[1] : ~Contains(side[1][j], placeholder)

\* the two sides of a template in either order
SidePairs(t) ==
    {<<<<t.source_template_keys.strs, t.source_key_per_placeholder>>,
       <<t.dest_template_keys.strs, t.dest_key_per_placeholder>>>>,
     <<<<t.dest_template_keys.strs, t.dest_key_per_placeholder>>,
       <<t.source_template_keys.strs, t.source_key_per_placeholder>>>>}

\* C24: both sides are resolved under the same assignment, so a template in
\* which a bounded placeholder P occurs non-expanded on one side and neither
\* occurs nor is expanded on the other, or which expands P on one side while
\* the other contains P without expanding it, is never resolvable:
\* to_mapping returns None for every assignment.
C24_OneSidedPlaceholder ==
    tm.called =>
        \A P \in {LAYER, EXPERT} :
           (/\ Bounded(P, tm.placeholder_bounds)
            /\ \E pair \in SidePairs(tm.template) :
                  \/ OccursPlain(pair[1], P) /\ Absent(pair[2], P)
                  \/ pair[1][2] = P /\ OccursPlain(pair[2], P))
              => tm.result.tag = "None"

\* the string with the placeholder, if it occurs, replaced by the decimal
\* string of n
SpliceIf(template, placeholder, n) ==
    IF Contains(template, placeholder) THEN Splice(template, placeholder, n)
    ELSE template

\* the string with LAYER replaced by a and EXPERT by b
SpliceBoth(template, a, b) == SpliceIf(SpliceIf(template, LAYER, a), EXPERT, b)

\* the mappings of the call's list that come from template t: the results of
\* the template that are mappings and whose source keys the state dict holds
FromTemplate(t) ==
    LET Kept(r) == /\ r.tag = "mapping"
                   /\ Elems(r.mapping[1].source_keys) \subseteq DOMAIN arg_state_dict
        sel == SelectSeq(FilledTable[<<mapping_templates[t], arg_bounds>>], Kept)
    IN  [j \in DOMAIN sel |-> sel[j].mapping[1]]

\* template t has one source string and one dest string, both containing
\* the placeholder, which has a bound and is expanded on neither side
PlainOnBothSides(t, placeholder) ==
    LET T == Template(mapping_templates[t])
    IN  /\ Bounded(placeholder, arg_bounds)
        /\ ~Expands(T, placeholder)
        /\ Len(T.source_template_keys.strs) = 1
        /\ Len(T.dest_template_keys.strs) = 1
        /\ Contains(T.source_template_keys.strs[1], placeholder)
        /\ Contains(T.dest_template_keys.strs[1], placeholder)

\* the call's list of mappings
ReturnedMappings == IF op = "get_mappings" THEN outcome.mappings ELSE state_mappings

\* C25: in every mapping get_mappings returns from a template whose source
\* and dest strings both contain the non-expanded placeholder P, the integer
\* put for P in the source key is the integer put for P in the dest key; and
\* if P is the template's only placeholder and the state dict holds the
\* source keys for all i in 0 .. bounds[P]-1, the template yields exactly one
\* mapping per i.
C25_IndexConsistency ==
    ((op = "get_mappings" /\ pc = "returned") \/ (op = "convert" /\ i >= 1)) =>
        /\ ReturnedMappings = Flatten([t \in DOMAIN mapping_templates |-> FromTemplate(t)])
        /\ \A t \in DOMAIN mapping_templates :
              \A P \in {LAYER, EXPERT} :
                 PlainOnBothSides(t, P) =>
                    LET T == Template(mapping_templates[t])
                        src == T.source_template_keys.strs[1]
                        dst == T.dest_template_keys.strs[1]
                        Q == CHOOSE Q \in {LAYER, EXPERT} : Q # P
                        n == ValueOf(P, arg_bounds)
                    IN  /\ \A m \in Elems(FromTemplate(t)) :
                              \E a, b \in 0..(MaxBound + 1) :
                                 /\ m.source_keys = <<SpliceBoth(src, a, b)>>
                                 /\ m.dest_keys = <<SpliceBoth(dst, a, b)>>
                        /\ (/\ ~Contains(src, Q)
                            /\ ~Contains(dst, Q)
                            /\ \A v \in 0..(n - 1) : Splice(src, P, v) \in DOMAIN arg_state_dict)
                              => /\ Len(FromTemplate(t)) = n
                                 /\ \A v \in 0..(n - 1) :
                                       \E j \in DOMAIN FromTemplate(t) :
                                          /\ FromTemplate(t)[j].source_keys = <<Splice(src, P, v)>>
                                          /\ FromTemplate(t)[j].dest_keys = <<Splice(dst, P, v)>>

\* C25 witness: get_mappings returned the two mappings of the per-expert
\* template for a state dict holding both expert keys
C25_Witness ==
    /\ op = "get_mappings" /\ pc = "returned"
    /\ \E t \in DOMAIN mapping_templates :
          /\ PlainOnBothSides(t, EXPERT)
          /\ ~Contains(Template(mapping_templates[t]).source_template_keys.strs[1], LAYER)
          /\ ValueOf(EXPERT, arg_bounds) = 2
          /\ Len(FromTemplate(t)) = 2
          /\ \A j \in 1..2 : \E k \in DOMAIN outcome.mappings :
                outcome.mappings[k] = FromTemplate(t)[j]

\* the number of keys the claim gives a side: the bound on an expanded side,
\* 1 for a single string, the tuple's length for a tuple
SideLength(templates, key_per_placeholder, bounds) ==
    IF key_per_placeholder # <<>> THEN ValueOf(key_per_placeholder, bounds)
    ELSE IF templates.is_tuple THEN Len(templates.strs)
    ELSE 1

\* C26: when every bound is a positive integer, every mapping to_mapping
\* returns has non-empty source_keys and dest_keys, of length bounds[P] on a
\* side expanded over P, 1 on a side given as a single string and the
\* tuple's length on a side given as a tuple.
C26_KeyCounts ==
    (/\ tm.called
     /\ tm.result.tag = "mapping"
     /\ \A j \in DOMAIN tm.placeholder_bounds : tm.placeholder_bounds[j][2] >= 1) =>
        /\ Len(tm.result.mapping[1].source_keys) >= 1
        /\ Len(tm.result.mapping[1].dest_keys) >= 1
        /\ Len(tm.result.mapping[1].source_keys)
              = SideLength(tm.template.source_template_keys,
                           tm.template.source_key_per_placeholder,
                           tm.placeholder_bounds)
        /\ Len(tm.result.mapping[1].dest_keys)
              = SideLength(tm.template.dest_template_keys,
                           tm.template.dest_key_per_placeholder,
                           tm.placeholder_bounds)

\* a call of load_hf_model that passed the layer check, now finished
LoadFinished == ld.pc \in {"returned", "raised"} /\ ld.error.kind # "LayersError"

\* the key of item j of the HF state dict
HfKeyAt(j) == ld.hf_state_dict[j][1]

\* item j of the HF state dict has an image under key_mapping
Mapped(j) == HfKeyAt(j) \in DOMAIN ld.key_mapping

\* the items of the HF state dict whose key key_mapping sends to k
SettersOf(k) ==
    {j \in DOMAIN ld.hf_state_dict : Mapped(j) /\ ld.key_mapping[HfKeyAt(j)] = k}

\* the keys of model_state_dict that are the image of no HF key
NeverSet == {k \in DOMAIN ld.arg_model_state_dict : SettersOf(k) = {}}

\* the keys of model_state_dict that are the image of two or more HF keys
SetTwice == {k \in DOMAIN ld.arg_model_state_dict : Cardinality(SettersOf(k)) >= 2}

\* item j is the second one sent to its key of model_state_dict
SecondSetter(j) ==
    /\ Mapped(j)
    /\ ld.key_mapping[HfKeyAt(j)] \in DOMAIN ld.arg_model_state_dict
    /\ \E j2 \in SettersOf(ld.key_mapping[HfKeyAt(j)]) : j2 < j

\* the iteration for item j cannot complete
FailsAtItem(j) ==
    \/ ~Mapped(j)
    \/ ld.key_mapping[HfKeyAt(j)] \notin DOMAIN ld.arg_model_state_dict
    \/ SecondSetter(j)

\* the least element of a non-empty set of numbers
Least(S) == CHOOSE x \in S : \A y \in S : x <= y

\* C27 as stated: load_hf_model returns normally only if each key of
\* model_state_dict is the image under key_mapping of exactly one HF state
\* key; if some key is never set it raises the RuntimeError "Some OLMo core
\* state keys were not set"; if two HF keys map to the same OLMo-core key
\* the second removal from the un-updated set raises an error.
C27_AsStated ==
    LoadFinished =>
        /\ ld.pc = "returned" =>
              \A k \in DOMAIN ld.arg_model_state_dict : Cardinality(SettersOf(k)) = 1
        /\ NeverSet # {} => (ld.pc = "raised" /\ ld.error.kind = "NotSetError")
        /\ SetTwice # {} => (ld.pc = "raised" /\ ld.error = [kind |-> "KeyError", line |-> 111])

\* C27 amended: load_hf_model returns normally only if each key of
\* model_state_dict is the image of exactly one HF state key, and then each
\* key holds the state of that HF key; with a key that is never set, or with
\* two HF keys sent to one key, it never returns normally; the loop raises a
\* KeyError at the first item that has no image, whose image is no key of
\* model_state_dict, or that is the second one sent to its key (the second
\* removal); if no item is such, a key never set raises the RuntimeError.
C27_SetOnce ==
    LoadFinished =>
        /\ ld.pc = "returned" =>
              \A k \in DOMAIN ld.arg_model_state_dict :
                 /\ Cardinality(SettersOf(k)) = 1
                 /\ ld.model_state_dict[k]
                       = NewState(ld.arg_model_state_dict[k],
                                  ld.hf_state_dict[Least(SettersOf(k))][2])
        /\ (NeverSet # {} \/ SetTwice # {}) => ld.pc = "raised"
        /\ (\E j \in DOMAIN ld.hf_state_dict : FailsAtItem(j)) =>
              /\ ld.pc = "raised"
              /\ ld.error.kind = "KeyError"
              /\ ld.j = Least({j \in DOMAIN ld.hf_state_dict : FailsAtItem(j)})
              /\ (ld.error.line = 111) = SecondSetter(ld.j)
        /\ (NeverSet # {} /\ \A j \in DOMAIN ld.hf_state_dict : ~FailsAtItem(j)) =>
              ld.error.kind = "NotSetError"

\* C27 witness: two HF keys are sent to one key of model_state_dict, another
\* key is never set, and the second removal raised
C27_Witness ==
    /\ LoadFinished
    /\ SetTwice # {}
    /\ NeverSet # {}
    /\ ld.error = [kind |-> "KeyError", line |-> 111]

\* C28: a layer-count mismatch is rejected before the model state is
\* touched: if n_layers differs from the number of layers of the HF model,
\* load_hf_model raises the RuntimeError and no entry of model_state_dict
\* has been modified.
C28_LayerMismatch ==
    (ld.pc # "none" /\ ld.n_layers # ld.hf_layers) =>
        /\ ld.pc = "raised"
        /\ ld.error.kind = "LayersError"
        /\ ld.model_state_dict = ld.arg_model_state_dict

\* C28 witness: the call was rejected for its layer count although the HF
\* state dict has a key sent to a key of model_state_dict
C28_Witness ==
    /\ ld.pc = "raised"
    /\ ld.n_layers # ld.hf_layers
    /\ \E k \in DOMAIN ld.arg_model_state_dict : SettersOf(k) # {}

====
